---- MODULE Spec2Model ----
(***************************************************************************)
(* The world-graph simulation engine of nex (engine/*.js): the World       *)
(* orchestrator and its engines, as a state machine.                       *)
(*                                                                         *)
(* Numbers.  Reals in [0,1] (entropy score, similarity, strength) are      *)
(* fixed-point integers in units of 1/SCALE.  Sentiment and virality are   *)
(* in hundredths.  Time is in units of 1800 s, so that a half-life of      *)
(* 3600*(1 + 2*virality) seconds is 2 units at virality 0 and 4 units at   *)
(* virality 0.5, and the entity timeout of 3600000 ms is 2 units.          *)
(***************************************************************************)
EXTENDS Integers, Sequences, FiniteSets, TLC

VARIABLES
    state,          \* World.state: a record whose DOMAIN is the set of fields present
    entityTracker,  \* World.entityTracker.entities, in Map insertion order
    now,            \* the wall clock, Date.now()
    calls,          \* World.cycle invocations suspended at the ingestion await
    roomGen,        \* World.roomGen: the room generator and its room counter
    last            \* the last operation applied: its name, inputs and result

vars == <<state, entityTracker, now, calls, roomGen, last>>

(***************************************************************************)
(* Arithmetic helpers                                                      *)
(***************************************************************************)
Min(a, b) == IF a <= b THEN a ELSE b

Max(a, b) == IF a >= b THEN a ELSE b

Abs(a) == IF a < 0 THEN -a ELSE a

Range(s) == {s[i] : i \in 1..Len(s)}

\* s.slice(-n) for n > 0: the last n elements, in order
SliceLast(s, n) == IF Len(s) <= n THEN s ELSE SubSeq(s, Len(s) - n + 1, Len(s))

\* s.slice(0, n)
SliceFirst(s, n) == SubSeq(s, 1, Min(n, Len(s)))

\* array.find / findIndex: the first index whose element satisfies P, 0 when none
FirstIndex(s, P(_)) ==
    IF \E i \in 1..Len(s) : P(s[i])
    THEN CHOOSE i \in 1..Len(s) : P(s[i]) /\ \A j \in 1..(i - 1) : ~P(s[j])
    ELSE 0

RECURSIVE Flatten(_)
Flatten(ss) == IF ss = <<>> THEN <<>> ELSE Head(ss) \o Flatten(Tail(ss))

\* the ids of a room list, in order
Ids(rooms) == [i \in 1..Len(rooms) |-> rooms[i].id]

\* the unit of the fixed-point reals: 1.0
SCALE == 1000000

(***************************************************************************)
(* World state fields                                                      *)
(***************************************************************************)
\* whether the state object has the field (a missing field reads undefined)
Has(st, field) == field \in DOMAIN st

\* state.rooms || []
RoomsOf(st) == IF Has(st, "rooms") THEN st.rooms ELSE <<>>

\* st.field = value, adding the field when it is missing
SetField(st, field, value) ==
    [f \in DOMAIN st \cup {field} |-> IF f = field THEN value ELSE st[f]]

(***************************************************************************)
(* DecayEngine (engine/decay.js)                                           *)
(***************************************************************************)
\* Math.exp(-0.693 * q / 4) in units of 1/SCALE, rounded to nearest, for
\* q = -8 .. 83; entry q + 9 is the value at q.  Beyond q = 83 the value is
\* below half a unit.
ExpTable ==
    << 3998823, 3362719, 2827803, 2377977, 1999706, 1681607, 1414109, 1189163,
       1000000, 840927, 707159, 594669, 500074, 420526, 353631, 297378,
       250074, 210294, 176842, 148711, 125055, 105162, 88434, 74366,
       62537, 52589, 44223, 37189, 31273, 26298, 22115, 18597,
       15639, 13151, 11059, 9300, 7821, 6577, 5530, 4651,
       3911, 3289, 2766, 2326, 1956, 1645, 1383, 1163,
       978, 822, 692, 582, 489, 411, 346, 291,
       245, 206, 173, 145, 122, 103, 86, 73,
       61, 51, 43, 36, 31, 26, 22, 18,
       15, 13, 11, 9, 8, 6, 5, 5,
       4, 3, 3, 2, 2, 2, 1, 1,
       1, 1, 1, 1 >>

\* the first q (elapsed quarter half-lives) at which the double
\* 1 - Math.exp(-0.693 * q / 4) is exactly 1: exp has fallen below 2^-54
CollapseQ == 217

\* Math.exp(-0.693 * elapsed / halfLife); elapsed may be negative.  A value
\* that is positive but below one unit is kept as one unit, so that the
\* score stays below 1 exactly as long as the double does.
ExpDecay(elapsed, halfLife) ==
    LET q == (4 * elapsed) \div halfLife
    IN  IF q >= CollapseQ THEN 0
        ELSE IF q + 9 > Len(ExpTable) THEN 1
        ELSE IF q + 9 < 1 THEN ExpTable[1]
        ELSE ExpTable[q + 9]

\* decay.js:21-23: Math.min(1, 1 - Math.exp(-0.693 * elapsed / halfLife))
DecayScore(room, t) ==
    Min(SCALE, SCALE - ExpDecay(t - room.entropy.createdAt, room.entropy.halfLife))

\* the room after tick has written its score
Ticked(room, t) == [room EXCEPT !.entropy.score = DecayScore(room, t)]

\* DecayEngine.tick(rooms, now): every room gets its score written and is
\* classified; the three lists hold the rooms in input order
Tick(rooms, t) ==
    LET ticked == [i \in 1..Len(rooms) |-> Ticked(rooms[i], t)]
        IsCollapsed(r) == r.entropy.score >= SCALE
        IsDecayed(r) == ~IsCollapsed(r) /\ r.entropy.score >= 700000
        IsActive(r) == ~IsCollapsed(r) /\ ~IsDecayed(r)
    IN  [ active |-> SelectSeq(ticked, IsActive),
          decayed |-> SelectSeq(ticked, IsDecayed),
          collapsed |-> SelectSeq(ticked, IsCollapsed),
          rooms |-> ticked ]

\* DecayEngine.harvestFragments(room): the artifact of a collapsed room
HarvestFragments(room, t) ==
    [ sourceRoom |-> room.id, sourceTopic |-> room.topic,
      sentiment |-> room.sentiment, collapsedAt |-> t, kind |-> "collapsed" ]


(***************************************************************************)
(* PruneEngine (engine/prune.js)                                           *)
(***************************************************************************)
\* prune.js:83 and :100: a room keeps at most this many traces
TraceCap == 5

\* prune.js:92: absorption picks among this many same-topic rooms
AbsorbPool == 3

\* prune.js:14: the default of staleCycles
DefaultStaleCycles == 5

\* prune.js:35: room.lastRefreshedCycle || room._addedCycle || 0 (a missing
\* field and 0 are both falsy, so a missing field is held as 0)
RefreshedCycle(room) ==
    IF room.lastRefreshedCycle # 0 THEN room.lastRefreshedCycle
    ELSE IF room.addedCycle # 0 THEN room.addedCycle
    ELSE 0

\* a slip: the age is counted from the current cycle
IsStaleNever(room, currentCycle, staleCycles) ==
    currentCycle - currentCycle >= staleCycles

\* prune.js:35-36
IsStale(room, currentCycle, staleCycles) ==
    currentCycle - RefreshedCycle(room) >= staleCycles

\* a slip: the prune threshold taken as exclusive
IsDecayingExclusive(room) == room.entropy.score > 600000

\* prune.js:37
IsDecaying(room) == room.entropy.score >= 600000

\* prune.js:39: the room goes to toPrune
IsPruned(room, currentCycle, staleCycles) ==
    IsStale(room, currentCycle, staleCycles) /\ IsDecaying(room)

\* prune.js:41-43: a stale room not yet prunable has its decay accelerated
Accelerated(room, currentCycle, staleCycles) ==
    IF /\ ~IsPruned(room, currentCycle, staleCycles)
       /\ IsStale(room, currentCycle, staleCycles)
       /\ room.entropy.score >= 400000
    THEN [room EXCEPT !.entropy.score = Min(SCALE, @ + 150000)]
    ELSE room

\* prune.js:21-28: the adjacency Set of a room, in insertion order
RECURSIVE NeighborsOf(_, _, _)
NeighborsOf(id, corridors, acc) ==
    IF corridors = <<>> THEN acc
    ELSE LET c == Head(corridors)
             a1 == IF c.from = id /\ c.to \notin Range(acc)
                   THEN Append(acc, c.to) ELSE acc
             a2 == IF c.to = id /\ c.from \notin Range(a1)
                   THEN Append(a1, c.from) ELSE a1
         IN  NeighborsOf(id, Tail(corridors), a2)

\* a slip: the newest trace is dropped when the list is over the cap
PushTraceKeepsOldest(traces, tr) ==
    LET t == Append(traces, tr)
    IN  IF Len(t) > TraceCap THEN SliceFirst(t, TraceCap) ELSE t

\* prune.js:76-83: push a trace, then shift once when over the cap
PushTrace(traces, tr) ==
    LET t == Append(traces, tr)
    IN  IF Len(t) > TraceCap THEN Tail(t) ELSE t

\* prune.js:73-84: the first kept room with this id absorbs the trace
AddTraceTo(keep, id, tr) ==
    LET HasId(r) == r.id = id
        idx == FirstIndex(keep, HasId)
    IN  IF idx = 0 THEN keep
        ELSE [keep EXCEPT ![idx].traces = PushTrace(@, tr)]

RECURSIVE AddTraces(_, _, _)
AddTraces(keep, ids, tr) ==
    IF ids = <<>> THEN keep
    ELSE AddTraces(AddTraceTo(keep, Head(ids), tr), Tail(ids), tr)

\* prune.js:89-102: a pruned room without living neighbours is absorbed by
\* one of the first AbsorbPool kept rooms of its topic; r stands for
\* Math.floor(Math.random() * Math.min(3, sameTopic.length))
Absorb(keep, room, tr, r) ==
    LET sameTopic == {i \in 1..Len(keep) : keep[i].topic = room.topic}
        Rank(i) == Cardinality({j \in sameTopic : j < i})
        pool == Min(AbsorbPool, Cardinality(sameTopic))
    IN  IF sameTopic = {} THEN keep
        ELSE LET target == CHOOSE i \in sameTopic : Rank(i) = r % pool
             IN  [keep EXCEPT ![target].traces = PushTrace(@, tr)]

\* prune.js:54-111: one pruned room is processed
PruneOne(acc, room, prunedIds, corridors, currentCycle, staleCycles, r, t) ==
    LET roomNeighbors == NeighborsOf(room.id, corridors, <<>>)
        Living(id) == id \notin prunedIds
        livingNeighbors == SelectSeq(roomNeighbors, Living)
        fragment == [ sourceRoom |-> room.id, sourceTopic |-> room.topic,
                      sentiment |-> room.sentiment, collapsedAt |-> t,
                      cycle |-> currentCycle, kind |-> "pruned" ]
        tr == [from |-> room.id, topic |-> room.topic, absorbedAt |-> t]
        k1 == AddTraces(acc.keep, livingNeighbors, tr)
        k2 == IF Len(livingNeighbors) = 0 THEN Absorb(k1, room, tr, r) ELSE k1
        event == [ timestamp |-> t, type |-> "room_pruned", topic |-> room.topic,
                   score |-> room.entropy.score, staleCycles |-> staleCycles,
                   involvedRooms |-> <<room.id>> \o SliceFirst(livingNeighbors, 3),
                   involvedEntities |-> <<>> ]
    IN  [ keep |-> k2,
          fragments |-> Append(acc.fragments, fragment),
          events |-> Append(acc.events, event) ]

RECURSIVE PruneLoop(_, _, _, _, _, _, _, _, _)
PruneLoop(acc, toPrune, k, prunedIds, corridors, currentCycle, staleCycles, rnd, t) ==
    IF k > Len(toPrune) THEN acc
    ELSE PruneLoop(PruneOne(acc, toPrune[k], prunedIds, corridors, currentCycle,
                            staleCycles, rnd[k], t),
                   toPrune, k + 1, prunedIds, corridors, currentCycle,
                   staleCycles, rnd, t)

\* a slip: the accelerated branch forgets toKeep.push(room)
ToKeepDropsAccelerated(rooms, currentCycle, staleCycles) ==
    LET Stays(r) == /\ ~IsPruned(r, currentCycle, staleCycles)
                    /\ Accelerated(r, currentCycle, staleCycles) = r
    IN  SelectSeq(rooms, Stays)

\* prune.js:30-48: the rooms that go to toKeep, in order, the stale ones
\* with their score raised
ToKeep(rooms, currentCycle, staleCycles) ==
    LET Stays(r) == ~IsPruned(r, currentCycle, staleCycles)
        kept == SelectSeq(rooms, Stays)
    IN  [i \in 1..Len(kept) |-> Accelerated(kept[i], currentCycle, staleCycles)]

\* prune.js:30-48: the rooms that go to toPrune, in order
ToPrune(rooms, currentCycle, staleCycles) ==
    LET Goes(r) == IsPruned(r, currentCycle, staleCycles)
    IN  SelectSeq(rooms, Goes)

\* PruneEngine.prune(state, staleCycles): rnd[k] is the random draw made for
\* the k-th pruned room.  The result's rooms field is the input list as the
\* call leaves it: prune mutates the kept room objects in place.
Prune(st, staleCycles, rnd, t) ==
    LET currentCycle == IF Has(st, "observationCycles") THEN st.observationCycles ELSE 0
        rooms == RoomsOf(st)
        corridors == IF Has(st, "corridors") THEN st.corridors ELSE <<>>
        toPrune == ToPrune(rooms, currentCycle, staleCycles)
        toKeep == ToKeep(rooms, currentCycle, staleCycles)
        prunedIds == {toPrune[i].id : i \in 1..Len(toPrune)}
        done == PruneLoop([keep |-> toKeep, fragments |-> <<>>, events |-> <<>>],
                          toPrune, 1, prunedIds, corridors, currentCycle,
                          staleCycles, rnd, t)
        AsLeft(room) ==
            LET HasId(r) == r.id = room.id
                idx == FirstIndex(done.keep, HasId)
            IN  IF idx = 0 THEN room ELSE done.keep[idx]
    IN  [ kept |-> done.keep, pruned |-> toPrune,
          fragments |-> done.fragments, events |-> done.events,
          rooms |-> [i \in 1..Len(rooms) |-> AsLeft(rooms[i])] ]

\* a slip: every existing room is refreshed when there are new rooms
RefreshesEvery(rooms, newRooms, currentCycle) ==
    [i \in 1..Len(rooms) |->
        IF Len(newRooms) > 0
        THEN [rooms[i] EXCEPT !.lastRefreshedCycle = currentCycle]
        ELSE rooms[i]]

\* a slip: the existing rooms are left unmarked (prune runs on them as they
\* were before refreshRooms)
RefreshSkipped(rooms, newRooms, currentCycle) == rooms

\* PruneEngine.refreshRooms(rooms, newRooms, currentCycle) on the existing rooms
RefreshExisting(rooms, newRooms, currentCycle) ==
    LET newTopics == {newRooms[i].topic : i \in 1..Len(newRooms)}
    IN  [i \in 1..Len(rooms) |->
            IF rooms[i].topic \in newTopics
            THEN [rooms[i] EXCEPT !.lastRefreshedCycle = currentCycle]
            ELSE rooms[i]]

\* PruneEngine.refreshRooms(rooms, newRooms, currentCycle) on the new rooms
RefreshNew(newRooms, currentCycle) ==
    [i \in 1..Len(newRooms) |->
        [newRooms[i] EXCEPT !.lastRefreshedCycle = currentCycle,
                            !.addedCycle = currentCycle]]


(***************************************************************************)
(* Rooms (engine/rooms.js)                                                 *)
(***************************************************************************)
\* rooms.js:89-96: 3600 * (1 + virality * 2) seconds, in units of 1800 s
HalfLife(virality) == 2 + (4 * virality) \div 100

\* rooms.js:117-151: the room generated from an observation at time t; the
\* random id is a fresh one
GenerateRoom(id, obs, t) ==
    [ id |-> id, topic |-> obs.topic,
      sentiment |-> obs.sentiment, virality |-> obs.virality,
      entropy |-> [score |-> 0, halfLife |-> HalfLife(obs.virality), createdAt |-> t],
      connections |-> <<>>, traces |-> <<>>,
      lastRefreshedCycle |-> 0, addedCycle |-> 0 ]

(***************************************************************************)
(* TopologyEngine (engine/world.js:351-583)                                *)
(***************************************************************************)
\* world.js:389: the default similarity threshold, 0.4
DefaultThreshold == 400000

\* world.js:425: a room is connected to at most this many later group members
IntraLimit == 5

\* world.js:437 and :440: rooms with this many edges are skipped, and at
\* most this many cross-topic connections are made per room
CrossLimit == 3

\* world.js:443: the size of the random sample of another topic's rooms
SampleSize == 5

\* world.js:462: the size of the fallback pool of the repair pass
FallbackPool == 50

\* TopologyEngine.similarity(roomA, roomB): sentiment and virality are in
\* hundredths, the result in units of 1/SCALE
Similarity(roomA, roomB) ==
    LET sentDiff == Abs(roomA.sentiment - roomB.sentiment)
        virDiff == Abs(roomA.virality - roomB.virality)
    IN  (IF roomA.topic = roomB.topic THEN 500000 ELSE 0)
        + (100 - sentDiff) * 3000
        + Max(0, 500 - virDiff) * 400

\* world.js:394-398: the topics in order of first appearance (the key order
\* of the Map byTopic)
RECURSIVE TopicOrder(_, _)
TopicOrder(rooms, acc) ==
    IF rooms = <<>> THEN acc
    ELSE TopicOrder(Tail(rooms),
                    IF Head(rooms).topic \in Range(acc) THEN acc
                    ELSE Append(acc, Head(rooms).topic))

\* world.js:394-398: the group of a topic, as indices into rooms, in order
GroupOf(rooms, topic) ==
    LET InTopic(i) == rooms[i].topic = topic
    IN  SelectSeq([i \in 1..Len(rooms) |-> i], InTopic)

\* a slip: only a's connection list is extended
AddCorridorOneWay(g, a, b, sim) ==
    LET key == IF a < b THEN <<a, b>> ELSE <<b, a>>
    IN  IF key \in g.corridorSet THEN g
        ELSE [ g EXCEPT !.corridorSet = @ \cup {key},
                        !.corridors = Append(@, [from |-> a, to |-> b, similarity |-> sim]),
                        !.connections[a] = Append(@, b) ]

\* world.js:400-414: addCorridor(a, b, sim), a and b being room ids; g holds
\* corridors, corridorSet, each room's connections and the groups of byTopic
AddCorridor(g, a, b, sim) ==
    LET key == IF a < b THEN <<a, b>> ELSE <<b, a>>
    IN  IF key \in g.corridorSet THEN g
        ELSE LET g1 == [ g EXCEPT !.corridorSet = @ \cup {key},
                                  !.corridors = Append(@, [from |-> a, to |-> b,
                                                           similarity |-> sim]),
                                  !.connections[a] = Append(@, b) ]
             IN  [g1 EXCEPT !.connections[b] = Append(@, a)]

\* world.js:419-423: scored, the rooms js each with its similarity to rooms[i]
Scored(rooms, i, js) ==
    [x \in 1..Len(js) |-> [room |-> js[x], sim |-> Similarity(rooms[i], rooms[js[x]])]]

\* a slip: the item goes before the first entry of higher similarity
RECURSIVE InsertAscending(_, _)
InsertAscending(sorted, item) ==
    IF sorted = <<>> THEN <<item>>
    ELSE IF Head(sorted).sim <= item.sim
    THEN <<Head(sorted)>> \o InsertAscending(Tail(sorted), item)
    ELSE <<item>> \o sorted

\* the item goes before the first entry of lower similarity, after its equals
RECURSIVE InsertBySim(_, _)
InsertBySim(sorted, item) ==
    IF sorted = <<>> THEN <<item>>
    ELSE IF Head(sorted).sim >= item.sim
    THEN <<Head(sorted)>> \o InsertBySim(Tail(sorted), item)
    ELSE <<item>> \o sorted

RECURSIVE SortAscending(_, _)
SortAscending(scored, sorted) ==
    IF scored = <<>> THEN sorted
    ELSE SortAscending(Tail(scored), InsertAscending(sorted, Head(scored)))

\* world.js:424: scored.sort((a, b) => b.sim - a.sim), descending by
\* similarity and stable
RECURSIVE SortBySim(_, _)
SortBySim(scored, sorted) ==
    IF scored = <<>> THEN sorted
    ELSE SortBySim(Tail(scored), InsertBySim(sorted, Head(scored)))

\* the rooms of a scored list, in its order
ScoredRooms(scored) == [k \in 1..Len(scored) |-> scored[k].room]

\* a slip: the comparator the other way round, ascending by similarity
SortedBySimAscending(rooms, i, js) ==
    ScoredRooms(SortAscending(Scored(rooms, i, js), <<>>))

\* world.js:419-424: the later members js of the group of rooms[i], by
\* descending similarity to it; js are indices into rooms
SortedBySim(rooms, i, js) ==
    ScoredRooms(SortBySim(Scored(rooms, i, js), <<>>))

\* world.js:418-430: the intra-topic connections tried for group[i]
RECURSIVE IntraOne(_, _, _, _, _)
IntraOne(g, rooms, i, scored, threshold) ==
    IF scored = <<>> THEN g
    ELSE LET j == Head(scored)
             sim == Similarity(rooms[i], rooms[j])
         IN  IntraOne(IF sim >= threshold
                      THEN AddCorridor(g, rooms[i].id, rooms[j].id, sim) ELSE g,
                      rooms, i, Tail(scored), threshold)

\* world.js:417-431: the intra-topic pass over one group, from position k
RECURSIVE IntraGroup(_, _, _, _, _)
IntraGroup(g, rooms, group, k, threshold) ==
    IF k > Len(group) THEN g
    ELSE LET later == SubSeq(group, k + 1, Len(group))
             scored == SliceFirst(SortedBySim(rooms, group[k], later), IntraLimit)
         IN  IntraGroup(IntraOne(g, rooms, group[k], scored, threshold),
                        rooms, group, k + 1, threshold)

RECURSIVE IntraPass(_, _, _, _)
IntraPass(g, rooms, topics, threshold) ==
    IF topics = <<>> THEN g
    ELSE IntraPass(IntraGroup(g, rooms, g.byTopic[Head(topics)], 1, threshold),
                   rooms, Tail(topics), threshold)

\* world.js:443: others.sort(() => Math.random() - 0.5) reorders the group in
\* place; seed is the random order drawn, a ranking of the room indices
Shuffled(group, seed) ==
    LET Rank(x) == 1 + Cardinality({y \in 1..Len(group) : seed[group[y]] < seed[group[x]]})
    IN  [k \in 1..Len(group) |-> group[CHOOSE x \in 1..Len(group) : Rank(x) = k]]

\* world.js:439-452: the other topics tried for one room, from topic ti on;
\* the loop ends at the room's own topic or after CrossLimit connections
RECURSIVE CrossTopics(_, _, _, _, _, _, _, _)
CrossTopics(g, rooms, i, topics, ti, crossCount, threshold, seed) ==
    IF ti > Len(topics) THEN g
    ELSE IF topics[ti] = rooms[i].topic \/ crossCount >= CrossLimit THEN g
    ELSE LET others == g.byTopic[topics[ti]]
             reordered == IF Len(others) <= SampleSize THEN others
                          ELSE Shuffled(others, seed)
             sample == SliceFirst(reordered, SampleSize)
             g1 == [g EXCEPT !.byTopic[topics[ti]] = reordered]
             Close(j) == Similarity(rooms[i], rooms[j]) >= threshold
             hit == FirstIndex(sample, Close)
         IN  IF hit = 0
             THEN CrossTopics(g1, rooms, i, topics, ti + 1, crossCount, threshold, seed)
             ELSE CrossTopics(AddCorridor(g1, rooms[i].id, rooms[sample[hit]].id,
                                          Similarity(rooms[i], rooms[sample[hit]])),
                              rooms, i, topics, ti + 1, crossCount + 1, threshold, seed)

\* world.js:436-453: the cross-topic pass over the rooms of one group
RECURSIVE CrossGroup(_, _, _, _, _, _, _)
CrossGroup(g, rooms, topic, k, topics, threshold, seeds) ==
    IF k > Len(g.byTopic[topic]) THEN g
    ELSE LET i == g.byTopic[topic][k]
         IN  CrossGroup(IF Len(g.connections[rooms[i].id]) >= CrossLimit THEN g
                        ELSE CrossTopics(g, rooms, i, topics, 1, 0, threshold, seeds[i]),
                        rooms, topic, k + 1, topics, threshold, seeds)

RECURSIVE CrossPass(_, _, _, _, _, _)
CrossPass(g, rooms, topics, ti, threshold, seeds) ==
    IF ti > Len(topics) THEN g
    ELSE CrossPass(CrossGroup(g, rooms, topics[ti], 1, topics, threshold, seeds),
                   rooms, topics, ti + 1, threshold, seeds)

\* a slip: the repair pass looks for a partner in the room's own group only
RepairCandidatesOwnGroup(g, rooms, i) == g.byTopic[rooms[i].topic]

\* world.js:460-462: the candidates of the repair pass for room i
RepairCandidates(g, rooms, i) ==
    LET sameTopicRooms == g.byTopic[rooms[i].topic]
    IN  IF Len(sameTopicRooms) > 1 THEN sameTopicRooms
        ELSE [k \in 1..Min(FallbackPool, Len(rooms)) |-> k]

\* world.js:461-467: the first candidate of highest similarity, above -1;
\* 0 when there is none
BestRoom(rooms, i, candidates) ==
    LET Eligible(k) == /\ rooms[candidates[k]].id # rooms[i].id
                       /\ Similarity(rooms[i], rooms[candidates[k]]) > -SCALE
        Better(k, m) == Similarity(rooms[i], rooms[candidates[k]])
                          > Similarity(rooms[i], rooms[candidates[m]])
        best == {k \in 1..Len(candidates) :
                    /\ Eligible(k)
                    /\ \A m \in 1..Len(candidates) :
                         Eligible(m) => /\ ~Better(m, k)
                                        /\ (m < k => Better(k, m))}
    IN  IF best = {} THEN 0 ELSE candidates[CHOOSE k \in best : TRUE]

\* world.js:456-470: the connectivity repair pass, from room i on
RECURSIVE RepairPass(_, _, _)
RepairPass(g, rooms, i) ==
    IF i > Len(rooms) THEN g
    ELSE IF Len(g.connections[rooms[i].id]) = 0 /\ Len(rooms) > 1
    THEN LET bestRoom == BestRoom(rooms, i, RepairCandidates(g, rooms, i))
         IN  RepairPass(IF bestRoom = 0 THEN g
                        ELSE AddCorridor(g, rooms[i].id, rooms[bestRoom].id,
                                         Similarity(rooms[i], rooms[bestRoom])),
                        rooms, i + 1)
    ELSE RepairPass(g, rooms, i + 1)

\* world.js:472: what generateCorridors returns, the corridors; the rooms
\* come back with the connection lists the passes extended in place
WithConnections(rooms, g) ==
    [ corridors |-> g.corridors,
      rooms |-> [i \in 1..Len(rooms) |->
                    [rooms[i] EXCEPT !.connections = g.connections[rooms[i].id]]] ]

\* TopologyEngine.generateCorridors(rooms, threshold): seeds[i] is the random
\* order drawn when room i samples a group of more than SampleSize rooms.
GenerateCorridors(rooms, threshold, seeds) ==
    LET topics == TopicOrder(rooms, <<>>)
        g0 == [ corridors |-> <<>>, corridorSet |-> {},
                connections |-> [id \in {rooms[i].id : i \in 1..Len(rooms)} |->
                                    LET Is(r) == r.id = id
                                    IN  rooms[FirstIndex(rooms, Is)].connections],
                byTopic |-> [t \in Range(topics) |-> GroupOf(rooms, t)] ]
    IN  WithConnections(rooms,
            RepairPass(CrossPass(IntraPass(g0, rooms, topics, threshold),
                                 rooms, topics, 1, threshold, seeds),
                       rooms, 1))

\* the random orders generateCorridors may draw over n rooms: none is drawn
\* unless a group sampled by the rooms of another topic has more than
\* SampleSize rooms; the loop of world.js:439-440 ends at the room's own
\* topic, so the group of the last topic is never sampled
Seeds(rooms) ==
    LET n == Len(rooms)
        identity == [i \in 1..n |-> i]
        topics == TopicOrder(rooms, <<>>)
    IN  IF \A k \in 1..(Len(topics) - 1) : Len(GroupOf(rooms, topics[k])) <= SampleSize
        THEN {[i \in 1..n |-> identity]}
        ELSE [1..n -> {p \in [1..n -> 1..n] : \A x, y \in 1..n : p[x] = p[y] => x = y}]

\* a slip: the connections of the previous cycle are kept
ResetConnectionsKeeps(rooms) == rooms

\* world.js:280-282: the connections are reset before the rebuild
ResetConnections(rooms) ==
    [i \in 1..Len(rooms) |-> [rooms[i] EXCEPT !.connections = <<>>]]

\* TopologyEngine.buildTopology(rooms) after the reset of world.js:280-282;
\* the layout (positions) is not part of the model
BuildTopology(rooms, seeds) ==
    GenerateCorridors(ResetConnections(rooms), DefaultThreshold, seeds)

(***************************************************************************)
(* EntityTracker (engine/entities.js, src/unnamed/part_003:212-435)        *)
(* Strings are sequences of characters; a text is the sequence of its      *)
(* whitespace-separated tokens.                                            *)
(***************************************************************************)
UpperCase == <<"A", "B", "C", "D", "E", "F", "G", "H", "I", "J", "K", "L", "M",
               "N", "O", "P", "Q", "R", "S", "T", "U", "V", "W", "X", "Y", "Z">>

LowerCase == <<"a", "b", "c", "d", "e", "f", "g", "h", "i", "j", "k", "l", "m",
               "n", "o", "p", "q", "r", "s", "t", "u", "v", "w", "x", "y", "z">>

Digits == {"0", "1", "2", "3", "4", "5", "6", "7", "8", "9"}

UpperSet == Range(UpperCase)

LowerSet == Range(LowerCase)

\* the lower-case letter of each upper-case letter
LowerOf == [c \in UpperSet |-> LowerCase[CHOOSE k \in 1..26 : UpperCase[k] = c]]

\* String.prototype.toLowerCase
ToLowerCase(str) ==
    [i \in 1..Len(str) |-> IF str[i] \in UpperSet THEN LowerOf[str[i]] ELSE str[i]]

\* the characters of the regular expression class \w
WordChars == UpperSet \cup LowerSet \cup Digits \cup {"_"}

IsWordChar(c) == c \in WordChars

\* the characters of the class [a-z0-9]
LowerAlnum == LowerSet \cup Digits

\* part_003:245 and :258: text.match(/@(\w+)/g) within one token, from
\* position p on: every sigil followed by a maximal run of \w characters
RECURSIVE SigilMatches(_, _, _)
SigilMatches(token, sigil, p) ==
    IF p >= Len(token) THEN <<>>
    ELSE IF token[p] = sigil /\ IsWordChar(token[p + 1])
    THEN LET end == CHOOSE e \in (p + 1)..Len(token) :
                        /\ \A k \in (p + 1)..e : IsWordChar(token[k])
                        /\ (e = Len(token) \/ ~IsWordChar(token[e + 1]))
         IN  <<SubSeq(token, p, end)>> \o SigilMatches(token, sigil, end + 1)
    ELSE SigilMatches(token, sigil, p + 1)

\* every match of the sigil pattern in a text, in order
TextMatches(text, sigil) ==
    Flatten([i \in 1..Len(text) |-> SigilMatches(text[i], sigil, 1)])

\* part_003:273: words that are never tracked
StopWords ==
    { <<"h", "t", "t", "p", "s">>,
      <<"a", "b", "o", "u", "t">>,
      <<"t", "h", "e", "i", "r">>,
      <<"t", "h", "e", "r", "e">>,
      <<"w", "o", "u", "l", "d">>,
      <<"c", "o", "u", "l", "d">>,
      <<"s", "h", "o", "u", "l", "d">>,
      <<"w", "h", "i", "c", "h">>,
      <<"t", "h", "e", "s", "e">>,
      <<"t", "h", "o", "s", "e">>,
      <<"b", "e", "i", "n", "g">>,
      <<"o", "t", "h", "e", "r">>,
      <<"a", "f", "t", "e", "r">>,
      <<"b", "e", "f", "o", "r", "e">>,
      <<"b", "e", "t", "w", "e", "e", "n">>,
      <<"t", "h", "r", "o", "u", "g", "h">>,
      <<"u", "n", "d", "e", "r">>,
      <<"r", "e", "a", "l", "l", "y">>,
      <<"t", "h", "i", "n", "k">>,
      <<"n", "e", "v", "e", "r">>,
      <<"a", "l", "w", "a", "y", "s">>,
      <<"s", "t", "i", "l", "l">> }

\* part_003:303: common words that never become entities
BoringWords ==
    { <<"p", "e", "o", "p", "l", "e">>,
      <<"w", "o", "r", "l", "d">>,
      <<"t", "h", "i", "n", "g", "s">>,
      <<"s", "o", "m", "e", "t", "h", "i", "n", "g">>,
      <<"e", "v", "e", "r", "y", "t", "h", "i", "n", "g">>,
      <<"n", "o", "t", "h", "i", "n", "g">>,
      <<"g", "o", "i", "n", "g">>,
      <<"m", "a", "k", "i", "n", "g">>,
      <<"g", "e", "t", "t", "i", "n", "g">> }

\* part_003:271-273: the significant words of a text
SignificantWords(text) ==
    LET lowered == [i \in 1..Len(text) |-> ToLowerCase(text[i])]
        Significant(w) == Len(w) >= 5 /\ w \notin StopWords
    IN  SelectSeq(lowered, Significant)

WordPrefix == <<"w", "o", "r", "d", ":">>

\* part_003:248-254 (and :261-267, :277-283): one occurrence of a mention is
\* counted in the Map mentions, kept as a sequence in insertion order;
\* ctxCap is the most contexts kept (0: no cap)
CountMention(mentions, key, name, type, ctx, topic, ctxCap) ==
    LET HasKey(m) == m.key = key
        idx == FirstIndex(mentions, HasKey)
        ms == IF idx = 0
              THEN Append(mentions, [ key |-> key, name |-> name, count |-> 0,
                                      contexts |-> <<>>, type |-> type, topics |-> <<>> ])
              ELSE mentions
        at == IF idx = 0 THEN Len(ms) ELSE idx
    IN  [ms EXCEPT ![at].count = @ + 1,
                   ![at].contexts = IF ctxCap = 0 \/ Len(@) < ctxCap
                                    THEN Append(@, ctx) ELSE @,
                   ![at].topics = IF topic \in Range(@) THEN @ ELSE Append(@, topic)]

RECURSIVE CountSigils(_, _, _, _)
CountSigils(mentions, matches, type, obs) ==
    IF matches = <<>> THEN mentions
    ELSE CountSigils(CountMention(mentions, ToLowerCase(Head(matches)), Head(matches),
                                  type, obs.id, obs.topic, 0),
                     Tail(matches), type, obs)

RECURSIVE CountWords(_, _, _)
CountWords(mentions, words, obs) ==
    IF words = <<>> THEN mentions
    ELSE CountWords(CountMention(mentions, WordPrefix \o Head(words), Head(words),
                                 "concept", obs.id, obs.topic, 5),
                    Tail(words), obs)

\* EntityTracker.extract(observations): the Map mentions; a context is the
\* text prefix of the observation, held as the observation's id
RECURSIVE Extract(_, _)
Extract(mentions, observations) ==
    IF observations = <<>> THEN mentions
    ELSE LET obs == Head(observations)
             m1 == CountSigils(mentions, TextMatches(obs.text, "@"), "person", obs)
             m2 == CountSigils(m1, TextMatches(obs.text, "#"), "concept", obs)
             m3 == CountWords(m2, SignificantWords(obs.text), obs)
         IN  Extract(m3, Tail(observations))

\* part_003:307: 'entity_' + key.replace(/[^a-z0-9]/g, '_')
EntityId(key) ==
    <<"e", "n", "t", "i", "t", "y", "_">> \o
    [i \in 1..Len(key) |->
        IF key[i] \in LowerAlnum THEN key[i] ELSE "_"]

\* part_003:294: the default of minAppearances
DefaultMinAppearances == 3

\* part_003:319: an entity keeps at most this many contexts
ContextCap == 10

\* part_003:357: the timeout of a dead entity, 3600000 ms in units of 1800 s
EntityTimeout == 2

\* part_003:316-321: the first two contexts are added when new
RECURSIVE AddContexts(_, _)
AddContexts(recent, ctxs) ==
    IF ctxs = <<>> THEN recent
    ELSE IF Head(ctxs) \in Range(recent) THEN AddContexts(recent, Tail(ctxs))
    ELSE LET r == Append(recent, Head(ctxs))
         IN  AddContexts(IF Len(r) > ContextCap THEN Tail(r) ELSE r, Tail(ctxs))

RECURSIVE MergeTopics(_, _)
MergeTopics(topics, new) ==
    IF new = <<>> THEN topics
    ELSE MergeTopics(IF Head(new) \in Range(topics) THEN topics
                     ELSE Append(topics, Head(new)), Tail(new))

\* a slip: the increment is not capped
StrengthenedUncapped(strength) == strength + 100000

\* part_003:314
Strengthened(strength) == Min(SCALE, strength + 100000)

\* part_003:351
Weakened(strength) == Max(0, strength - 50000)

\* part_003:336
InitialStrength(count) == 300000 + Min(500000, count * 50000)

\* part_003:298-344: one entry of mentions is applied to the tracked entities
ApplyMention(acc, data, minAppearances, t) ==
    LET entityId == EntityId(data.key)
        HasId(e) == e.id = entityId
        idx == FirstIndex(acc.entities, HasId)
    IN  IF data.count < minAppearances THEN acc
        ELSE IF /\ data.type = "concept"
                /\ Len(data.key) >= 5 /\ SubSeq(data.key, 1, 5) = WordPrefix
                /\ data.name \in BoringWords
        THEN acc
        ELSE IF idx # 0
        THEN [acc EXCEPT
                !.entities[idx].appearances = @ + 1,
                !.entities[idx].lastSeen = t,
                !.entities[idx].strength = Strengthened(@),
                !.entities[idx].recentContexts =
                    AddContexts(@, SliceFirst(data.contexts, 2)),
                !.entities[idx].topics = MergeTopics(@, data.topics)]
        ELSE LET entity == [ id |-> entityId, name |-> data.name, type |-> data.type,
                             topics |-> data.topics, appearances |-> 1,
                             firstSeen |-> t, lastSeen |-> t,
                             strength |-> InitialStrength(data.count),
                             currentRoom |-> 0,
                             recentContexts |-> SliceFirst(data.contexts, 5),
                             history |-> <<>> ]
             IN  [ entities |-> Append(acc.entities, entity),
                   newEntities |-> Append(acc.newEntities, entity) ]

RECURSIVE ApplyMentions(_, _, _, _)
ApplyMentions(acc, mentions, minAppearances, t) ==
    IF mentions = <<>> THEN acc
    ELSE ApplyMentions(ApplyMention(acc, Head(mentions), minAppearances, t),
                       Tail(mentions), minAppearances, t)

\* part_003:348-349
WasSeen(entity, mentions) ==
    \E i \in 1..Len(mentions) :
        \/ mentions[i].key = ToLowerCase(entity.name)
        \/ mentions[i].key = WordPrefix \o ToLowerCase(entity.name)

\* part_003:346-353: the entities not seen this cycle decay
DecayUnseen(entities, mentions) ==
    [i \in 1..Len(entities) |->
        IF WasSeen(entities[i], mentions) THEN entities[i]
        ELSE [entities[i] EXCEPT !.strength = Weakened(@)]]

\* a slip: an entity last seen exactly the timeout ago is removed as well
RemoveDeadAtTimeout(entities, t) ==
    LET Alive(e) == ~(e.strength <= 0 /\ t - e.lastSeen >= EntityTimeout)
    IN  SelectSeq(entities, Alive)

\* part_003:355-360: the dead entities are removed
RemoveDead(entities, t) ==
    LET Alive(e) == ~(e.strength <= 0 /\ t - e.lastSeen > EntityTimeout)
    IN  SelectSeq(entities, Alive)

\* EntityTracker.update(observations, minAppearances) at time t: the tracked
\* entities afterwards, and the entities returned as new (as created)
UpdateEntities(entities, observations, minAppearances, t) ==
    LET mentions == Extract(<<>>, observations)
        applied == ApplyMentions([entities |-> entities, newEntities |-> <<>>],
                                 mentions, minAppearances, t)
    IN  [ entities |-> RemoveDead(DecayUnseen(applied.entities, mentions), t),
          newEntities |-> applied.newEntities,
          mentions |-> mentions ]

(***************************************************************************)
(* MemoryEngine (engine/memory.js, src/unnamed/part_001)                   *)
(***************************************************************************)
\* part_001:20 and :55: the default cap of the two histories
DefaultHistoryLength == 50

\* part_001:16-22: the memory a state without one is given
EmptyMemory ==
    [ topicHistory |-> <<>>, totalRoomHistory |-> <<>>,
      maxHistoryLength |-> DefaultHistoryLength ]

\* Math.round(x * 100) / 100 of the mean total / count of values held in
\* hundredths: rounding to nearest, halves upwards
RoundedMean(total, count) == (2 * total + count) \div (2 * count)

RECURSIVE SumSentiment(_)
SumSentiment(rooms) ==
    IF rooms = <<>> THEN 0 ELSE Head(rooms).sentiment + SumSentiment(Tail(rooms))

\* part_001:28-44: count and mean sentiment of every topic that has rooms
TopicSnapshot(rooms) ==
    [ topic \in {rooms[i].topic : i \in 1..Len(rooms)} |->
        LET OfTopic(r) == r.topic = topic
            members == SelectSeq(rooms, OfTopic)
        IN  [ count |-> Len(members),
              avgSentiment |-> RoundedMean(SumSentiment(members), Len(members)) ] ]

\* part_001:55: mem.maxHistoryLength || 50
HistoryCap(mem) ==
    IF mem.maxHistoryLength # 0 THEN mem.maxHistoryLength ELSE DefaultHistoryLength

\* a slip: slice(0, max) keeps the oldest entries
TrimHistoryKeepsOldest(history, max) ==
    IF Len(history) > max THEN SliceFirst(history, max) ELSE history

\* part_001:56-57: history.slice(-max) when the history is over the cap
TrimHistory(history, max) ==
    IF Len(history) > max THEN SliceLast(history, max) ELSE history

\* a slip: only the topic history is trimmed to the cap
MemoryUpdateTrimsTopics(st, t) ==
    LET mem == IF Has(st, "memory") THEN st.memory ELSE EmptyMemory
        cycle == st.observationCycles
        max == HistoryCap(mem)
        topicHistory == Append(mem.topicHistory,
                               [ cycle |-> cycle, timestamp |-> t,
                                 topics |-> TopicSnapshot(RoomsOf(st)) ])
        totalRoomHistory == Append(mem.totalRoomHistory,
                                   [cycle |-> cycle, count |-> Len(RoomsOf(st))])
    IN  [ mem EXCEPT !.topicHistory = TrimHistory(topicHistory, max),
                     !.totalRoomHistory = totalRoomHistory ]

\* MemoryEngine.update(state) at time t: the memory of the state afterwards
MemoryUpdate(st, t) ==
    LET mem == IF Has(st, "memory") THEN st.memory ELSE EmptyMemory
        cycle == st.observationCycles
        max == HistoryCap(mem)
        topicHistory == Append(mem.topicHistory,
                               [ cycle |-> cycle, timestamp |-> t,
                                 topics |-> TopicSnapshot(RoomsOf(st)) ])
        totalRoomHistory == Append(mem.totalRoomHistory,
                                   [cycle |-> cycle, count |-> Len(RoomsOf(st))])
    IN  [ mem EXCEPT !.topicHistory = TrimHistory(topicHistory, max),
                     !.totalRoomHistory = TrimHistory(totalRoomHistory, max) ]

\* part_001:68, :76: what analyzeTrends returns when it does not analyse
EmptyTrends == [growing |-> <<>>, fading |-> <<>>, stable |-> <<>>, insights |-> <<>>]

\* part_001:72: the size of the recent window, history.slice(-3)
RecentWindow == 3

\* part_001:73: history.slice(-6, -3), the three snapshots before the recent ones
OlderWindow(history) ==
    SubSeq(history, Max(1, Len(history) - 2 * RecentWindow + 1), Len(history) - RecentWindow)

\* part_001:81-93: the average count of a topic over the snapshots holding
\* it, as the fraction total / count; total 0 stands for recentAvg[topic] || 0
RECURSIVE AvgCount(_, _, _)
AvgCount(snapshots, topic, acc) ==
    IF snapshots = <<>> THEN (IF acc.count = 0 THEN [total |-> 0, count |-> 1] ELSE acc)
    ELSE AvgCount(Tail(snapshots), topic,
                  IF topic \in DOMAIN Head(snapshots).topics
                  THEN [total |-> acc.total + Head(snapshots).topics[topic].count,
                        count |-> acc.count + 1]
                  ELSE acc)

\* the keys of the averages of a window
WindowTopics(snapshots) == UNION {DOMAIN snapshots[i].topics : i \in 1..Len(snapshots)}

\* the elements of a finite set as a sequence; the key order of the
\* JavaScript objects is not kept by the model
RECURSIVE KeysOf(_)
KeysOf(S) ==
    IF S = {} THEN <<>>
    ELSE LET x == CHOOSE y \in S : TRUE IN <<x>> \o KeysOf(S \ {x})

\* r / o > 1.3 and r / o < 0.7 for the fractions r and o, o > 0
RatioAbove(r, o) == 10 * r.total * o.count > 13 * o.total * r.count

RatioBelow(r, o) == 10 * r.total * o.count < 7 * o.total * r.count

\* Math.round(|ratio - 1| * 100), halves upwards
PercentUp(r, o) ==
    (200 * (r.total * o.count - o.total * r.count) + o.total * r.count)
        \div (2 * o.total * r.count)

PercentDown(r, o) ==
    (200 * (o.total * r.count - r.total * o.count) + o.total * r.count)
        \div (2 * o.total * r.count)

\* a slip: whatever rises at all counts as growing
TrendOfAnyRise(r, o) ==
    IF o.total = 0 /\ r.total > 0 THEN "new"
    ELSE IF r.total = 0 /\ o.total > 0 THEN "silent"
    ELSE IF o.total > 0
         THEN IF r.total * o.count > o.total * r.count THEN "growing"
              ELSE IF RatioBelow(r, o) THEN "fading"
              ELSE "stable"
    ELSE "none"

\* part_001:103-123: the branch taken for a topic of recent average r and
\* older average o
TrendOf(r, o) ==
    IF o.total = 0 /\ r.total > 0 THEN "new"
    ELSE IF r.total = 0 /\ o.total > 0 THEN "silent"
    ELSE IF o.total > 0
         THEN IF RatioAbove(r, o) THEN "growing"
              ELSE IF RatioBelow(r, o) THEN "fading"
              ELSE "stable"
    ELSE "none"

\* part_001:99-124: one topic is classified; change is a fraction (negated
\* for a topic gone silent), an insight is its kind, topic and percentage
Classify(acc, topic, r, o, trend) ==
    IF trend = "new"
    THEN [acc EXCEPT !.growing = Append(@, [topic |-> topic, change |-> r]),
                     !.insights = Append(@, [kind |-> "new", topic |-> topic])]
    ELSE IF trend = "silent"
    THEN [acc EXCEPT !.fading = Append(@, [topic |-> topic,
                                           change |-> [o EXCEPT !.total = 0 - @]]),
                     !.insights = Append(@, [kind |-> "silent", topic |-> topic])]
    ELSE IF trend = "growing"
    THEN [acc EXCEPT !.growing = Append(@, [topic |-> topic,
                                            change |-> [total |-> r.total * o.count,
                                                        count |-> o.total * r.count]]),
                     !.insights = Append(@, [kind |-> "growing", topic |-> topic,
                                             percent |-> PercentUp(r, o)])]
    ELSE IF trend = "fading"
    THEN [acc EXCEPT !.fading = Append(@, [topic |-> topic,
                                           change |-> [total |-> r.total * o.count,
                                                       count |-> o.total * r.count]]),
                     !.insights = Append(@, [kind |-> "fading", topic |-> topic,
                                             percent |-> PercentDown(r, o)])]
    ELSE IF trend = "stable"
    THEN [acc EXCEPT !.stable = Append(@, [topic |-> topic])]
    ELSE acc

\* part_001:99-124: the body of the loop for a topic of averages r and o
ClassifyOne(acc, topic, r, o) == Classify(acc, topic, r, o, TrendOf(r, o))

\* part_001:99-124: the loop over allTopics
RECURSIVE ClassifyAll(_, _, _, _)
ClassifyAll(acc, topics, recent, older) ==
    IF topics = <<>> THEN acc
    ELSE ClassifyAll(ClassifyOne(acc, Head(topics),
                                 AvgCount(recent, Head(topics), [total |-> 0, count |-> 0]),
                                 AvgCount(older, Head(topics), [total |-> 0, count |-> 0])),
                     Tail(topics), recent, older)

\* a slip: the count of two snapshots earlier is taken
RoomTrendNearer(acc, roomHistory) ==
    IF Len(roomHistory) < 3 THEN acc
    ELSE LET recentCount == roomHistory[Len(roomHistory)].count
             olderCount == roomHistory[Max(1, Len(roomHistory) - 2)].count
         IN  IF 10 * recentCount < 8 * olderCount
             THEN [acc EXCEPT !.insights =
                       Append(@, [kind |-> "contracting", from |-> olderCount,
                                  to |-> recentCount])]
             ELSE IF 10 * recentCount > 13 * olderCount
             THEN [acc EXCEPT !.insights =
                       Append(@, [kind |-> "expanding", from |-> olderCount,
                                  to |-> recentCount])]
             ELSE acc

\* part_001:127-136: the insight on the number of rooms
RoomTrend(acc, roomHistory) ==
    IF Len(roomHistory) < 3 THEN acc
    ELSE LET recentCount == roomHistory[Len(roomHistory)].count
             olderCount == roomHistory[Max(1, Len(roomHistory) - 3)].count
         IN  IF 10 * recentCount < 8 * olderCount
             THEN [acc EXCEPT !.insights =
                       Append(@, [kind |-> "contracting", from |-> olderCount,
                                  to |-> recentCount])]
             ELSE IF 10 * recentCount > 13 * olderCount
             THEN [acc EXCEPT !.insights =
                       Append(@, [kind |-> "expanding", from |-> olderCount,
                                  to |-> recentCount])]
             ELSE acc

\* MemoryEngine.analyzeTrends(state)
AnalyzeTrends(st) ==
    IF ~Has(st, "memory") THEN EmptyTrends
    ELSE IF ~Has(st.memory, "topicHistory") THEN EmptyTrends
    ELSE IF Len(st.memory.topicHistory) < 2 THEN EmptyTrends
    ELSE IF Len(OlderWindow(st.memory.topicHistory)) = 0 THEN EmptyTrends
    ELSE RoomTrend(ClassifyAll(EmptyTrends,
                               KeysOf(WindowTopics(SliceLast(st.memory.topicHistory, RecentWindow))
                                      \cup WindowTopics(OlderWindow(st.memory.topicHistory))),
                               SliceLast(st.memory.topicHistory, RecentWindow),
                               OlderWindow(st.memory.topicHistory)),
                   IF Has(st.memory, "totalRoomHistory")
                   THEN st.memory.totalRoomHistory ELSE <<>>)

(***************************************************************************)
(* EventTracker (engine/events.js, src/unnamed/part_002)                   *)
(***************************************************************************)
\* part_002:89-90: the event log keeps this many entries
EventLogCap == 100

\* part_002:69: an entity of this strength is dominant
DominantStrength == 800000

\* part_002:69: this many rooms pruned in one cycle are a mass collapse
MassCollapse == 10

\* a slip: the topics are listed once per room instead of once per topic
RoomTopicsRepeated(rooms) == [i \in 1..Len(rooms) |-> rooms[i].topic]

\* the distinct topics of a room list, in order of first appearance (the
\* iteration order of a Set)
RoomTopics(rooms) == TopicOrder(rooms, <<>>)

Event(t, type, topic, involvedRooms, involvedEntities) ==
    [ timestamp |-> t, type |-> type, topic |-> topic,
      involvedRooms |-> involvedRooms, involvedEntities |-> involvedEntities ]

\* EventTracker.detect(state, {newRooms, prunedRooms, pruneEvents}) at time t
Detect(st, newRooms, prunedRooms, pruneEvents, t) ==
    LET existingTopics == Range(RoomTopics(RoomsOf(st)))
        Emerged(topic) == topic \notin existingTopics
        newTopics == SelectSeq(RoomTopics(newRooms), Emerged)
        IdsOf(rooms, topic) ==
            LET OfTopic(r) == r.topic = topic
                members == SelectSeq(rooms, OfTopic)
            IN  [i \in 1..Len(members) |-> members[i].id]
        emerged == [i \in 1..Len(newTopics) |->
                      Event(t, "topic_emerged", newTopics[i],
                            IdsOf(newRooms, newTopics[i]), <<>>)]
        Died(topic) == topic \notin existingTopics
        deadTopics == SelectSeq(RoomTopics(prunedRooms), Died)
        death == [i \in 1..Len(deadTopics) |->
                    Event(t, "topic_death", deadTopics[i],
                          IdsOf(prunedRooms, deadTopics[i]), <<>>)]
        entities == IF Has(st, "entities") THEN st.entities ELSE <<>>
        IsStrong(e) == e.strength >= DominantStrength
        strong == SelectSeq(entities, IsStrong)
        dominant == [i \in 1..Len(strong) |->
                       Event(t, "entity_dominant", "",
                             IF strong[i].currentRoom # 0
                             THEN <<strong[i].currentRoom>> ELSE <<>>,
                             <<strong[i].id>>)]
        mass == IF Len(prunedRooms) >= MassCollapse
                THEN <<Event(t, "mass_collapse", "",
                             Ids(SliceFirst(prunedRooms, 10)), <<>>)>>
                ELSE <<>>
    IN  pruneEvents \o emerged \o death \o dominant \o mass

\* EventTracker.record(state, newEvents): the event log afterwards
Record(st, newEvents) ==
    LET events == (IF Has(st, "events") THEN st.events ELSE <<>>) \o newEvents
    IN  IF Len(events) > EventLogCap THEN SliceLast(events, EventLogCap) ELSE events

(***************************************************************************)
(* Bounds of the model                                                     *)
(***************************************************************************)
\* the most rooms an engine call is given
MaxRooms == 3

\* the topics the model draws from (observer.js classifyTopic)
Topics == {"tech", "liminal"}

NoCall == [op |-> "init"]

(***************************************************************************)
(* Specification SpecPrune: PruneEngine.prune on drawn world states        *)
(***************************************************************************)
\* entropy score and last-refreshed cycle of the drawn rooms; the state's
\* cycle counter is DefaultStaleCycles + 1, so a room refreshed at cycle 1
\* has age 5 and one refreshed at the current cycle has age 0
PruneProfiles ==
    { <<600000, 1>>, <<599999, 1>>, <<400000, 1>>, <<399999, 1>>,
      <<900000, DefaultStaleCycles + 1>> }

PruneRoom(id, topic, profile) ==
    [ GenerateRoom(id, [topic |-> topic, sentiment |-> 0, virality |-> 0], 0)
      EXCEPT !.entropy.score = profile[1],
             !.lastRefreshedCycle = profile[2],
             !.addedCycle = 1 ]

\* the id of a room that collapsed earlier in the cycle and is no longer
\* among the n rooms: the edge list still names it when prune runs
\* (world.js:252 and :258)
GhostId(n) == n + 1

\* the edge lists drawn: none, the edge 2-1 alone, the chain 2-1, 3-2, ...,
\* or the chain closed to a ring, each with or without a stale edge from the
\* last room to the ghost
PruneCorridorSets(n) ==
    LET Edge(a, b) == [from |-> a, to |-> b, similarity |-> 0]
        chain == [i \in 1..(n - 1) |-> Edge(i + 1, i)]
        ring == IF n >= 3 THEN chain \o <<Edge(n, 1)>> ELSE chain
        ghost == <<Edge(n, GhostId(n))>>
    IN  UNION { {ch, ch \o ghost} : ch \in {<<>>, SliceFirst(chain, 1), chain, ring} }

\* the traces a drawn room already holds: held traces of rooms pruned in
\* earlier cycles, the oldest first
OldTraces(held) ==
    [k \in 1..held |-> [from |-> 0 - k, topic |-> "tech", absorbedAt |-> 0 - 1]]

InitPrune ==
    /\ \E n \in 1..MaxRooms :
         \E topic \in [1..n -> Topics], profile \in [1..n -> PruneProfiles] :
           \E corridors \in PruneCorridorSets(n), held \in {0, TraceCap - 1, TraceCap} :
             /\ topic[1] = "tech"
             /\ state = [ observationCycles |-> DefaultStaleCycles + 1,
                       rooms |-> [i \in 1..n |->
                                    [PruneRoom(i, topic[i], profile[i])
                                       EXCEPT !.traces = OldTraces(held)]],
                       corridors |-> corridors ]
    /\ entityTracker = <<>>
    /\ now = 0
    /\ calls = <<>>
    /\ roomGen = [roomCount |-> 0]
    /\ last = NoCall

\* one call prune(state, staleCycles); the kept rooms are mutated in place
PruneCall ==
    /\ last.op = "init"
    /\ \E staleCycles \in {DefaultStaleCycles, DefaultStaleCycles + 1} :
         \E rnd \in [1..Len(ToPrune(state.rooms, state.observationCycles, staleCycles))
                       -> 0..(AbsorbPool - 1)] :
           LET result == Prune(state, staleCycles, rnd, now)
           IN  /\ state' = [state EXCEPT !.rooms = result.rooms]
               /\ last' = [ op |-> "prune", in |-> state,
                            staleCycles |-> staleCycles, out |-> result ]
    /\ UNCHANGED <<entityTracker, now, calls, roomGen>>

\* the topics of the new rooms of a call of refreshRooms: none, one, or two
RefreshTopics ==
    { <<>>, <<"tech">>, <<"liminal">>, <<"existential">>, <<"liminal", "liminal">>,
      <<"tech", "liminal">> }

\* one call refreshRooms(rooms, newRooms, currentCycle) on a drawn world
\* without edges; both lists are mutated in place
RefreshCall ==
    /\ last.op = "init"
    /\ state.corridors = <<>>
    /\ \E topics \in RefreshTopics, currentCycle \in {state.observationCycles,
                                                     state.observationCycles + 1} :
         LET newRooms == [i \in 1..Len(topics) |->
                            GenerateRoom(Len(state.rooms) + i,
                                         [topic |-> topics[i], sentiment |-> 0,
                                          virality |-> 0], now)]
         IN  /\ state' = [state EXCEPT
                            !.rooms = RefreshExisting(@, newRooms, currentCycle)]
             /\ last' = [ op |-> "refresh", in |-> state, newRooms |-> newRooms,
                          currentCycle |-> currentCycle,
                          out |-> RefreshNew(newRooms, currentCycle) ]
    /\ UNCHANGED <<entityTracker, now, calls, roomGen>>

NextPrune == PruneCall \/ RefreshCall

SpecPrune == InitPrune /\ [][NextPrune]_vars


\* how often id occurs in a room list
Occurrences(rooms, id) == Cardinality({i \in 1..Len(rooms) : rooms[i].id = id})

\* C1: for every call prune(state, staleCycles) the kept and pruned lists
\* partition the input room list: every input room is in exactly one of the
\* two lists, and kept.length + pruned.length is the number of input rooms.
C1_Conservation ==
    last.op = "prune" =>
        LET rooms == last.in.rooms
            out == last.out
        IN  /\ Len(out.kept) + Len(out.pruned) = Len(rooms)
            /\ \A i \in 1..Len(rooms) :
                 Occurrences(out.kept, rooms[i].id)
                   + Occurrences(out.pruned, rooms[i].id) = 1

\* a call that both pruned a room and kept one with its score raised
C1_Witness ==
    /\ last.op = "prune"
    /\ Len(last.out.pruned) >= 1
    /\ \E i \in 1..Len(last.out.kept), j \in 1..Len(last.in.rooms) :
         /\ last.out.kept[i].id = last.in.rooms[j].id
         /\ last.out.kept[i].entropy.score > last.in.rooms[j].entropy.score

\* the age of a room at a cycle: cycles since it was last refreshed or added
AgeAt(room, cycle) ==
    cycle - (IF room.lastRefreshedCycle # 0 THEN room.lastRefreshedCycle
             ELSE room.addedCycle)

\* C2: prune removes a room iff its age is >= staleCycles and its score at
\* call time is >= 0.6; a stale room with score in [0.4, 0.6) is kept with
\* its score raised by 0.15 (capped at 1); a room with age < staleCycles
\* keeps its score, whatever the score is.
C2_PruneRule ==
    last.op = "prune" =>
        \A i \in 1..Len(last.in.rooms) :
            LET room == last.in.rooms[i]
                age == AgeAt(room, last.in.observationCycles)
                score == room.entropy.score
                isPruned == \E j \in 1..Len(last.out.pruned) :
                                last.out.pruned[j].id = room.id
                KeptWith(sc) == \E j \in 1..Len(last.out.kept) :
                                    /\ last.out.kept[j].id = room.id
                                    /\ last.out.kept[j].entropy.score = sc
            IN  /\ isPruned <=> (age >= last.staleCycles /\ score >= 600000)
                /\ (age >= last.staleCycles /\ score >= 400000 /\ score < 600000)
                     => KeptWith(Min(SCALE, score + 150000))
                /\ age < last.staleCycles
                     => KeptWith(score) /\ state.rooms[i].entropy.score = score

\* staleCycles = 5: a room of age 5 and score 0.6 is pruned, one of age 5
\* and score just below 0.6 is kept with its score raised
C2_Witness ==
    /\ last.op = "prune"
    /\ last.staleCycles = 5
    /\ \E i, j \in 1..Len(last.in.rooms) :
         /\ AgeAt(last.in.rooms[i], last.in.observationCycles) = 5
         /\ last.in.rooms[i].entropy.score = 600000
         /\ last.in.rooms[i].id \in Range(Ids(last.out.pruned))
         /\ AgeAt(last.in.rooms[j], last.in.observationCycles) = 5
         /\ last.in.rooms[j].entropy.score = 599999
         /\ state.rooms[j].entropy.score = 749999

\* whether the edge list joins the rooms with ids a and b
Adjacent(a, b, corridors) ==
    \E k \in 1..Len(corridors) :
        \/ corridors[k].from = a /\ corridors[k].to = b
        \/ corridors[k].from = b /\ corridors[k].to = a

\* the positions of a room's traces that were left by the room with this id
TracesFrom(room, id) == {k \in 1..Len(room.traces) : room.traces[k].from = id}

\* the kept rooms of the pruned room's topic, by position in the kept list
SameTopicKept(kept, p) == {i \in 1..Len(kept) : kept[i].topic = p.topic}

\* C22: every pruned room with no neighbour among the rooms kept by the
\* same call, when some kept room has its topic, leaves a trace in exactly
\* one kept room of its topic, one of the first 3 such rooms; edges that
\* name rooms no longer in the room list do not change this.
C22_AbsorbedBySameTopic ==
    last.op = "prune" =>
        \A j \in 1..Len(last.out.pruned) :
            LET p == last.out.pruned[j]
                kept == last.out.kept
                sameTopic == SameTopicKept(kept, p)
                isolated == \A i \in 1..Len(kept) :
                                ~Adjacent(p.id, kept[i].id, last.in.corridors)
                holders == {i \in 1..Len(kept) : TracesFrom(kept[i], p.id) # {}}
            IN  (isolated /\ sameTopic # {}) =>
                    /\ Cardinality(holders) = 1
                    /\ \A i \in holders :
                         /\ i \in sameTopic
                         /\ Cardinality({h \in sameTopic : h < i}) < AbsorbPool
                         /\ Cardinality(TracesFrom(kept[i], p.id)) = 1

\* what holds of the fallback: a pruned room none of whose edges names a
\* room that is not pruned in the call (gone or not) is absorbed by one of
\* the first 3 kept rooms of its topic; one with an edge to a room that
\* collapsed earlier in the cycle and no kept neighbour is absorbed by none
C22_AbsorbedAsCoded ==
    last.op = "prune" =>
        \A j \in 1..Len(last.out.pruned) :
            LET p == last.out.pruned[j]
                kept == last.out.kept
                sameTopic == SameTopicKept(kept, p)
                prunedIds == Range(Ids(last.out.pruned))
                neighbors == Range(NeighborsOf(p.id, last.in.corridors, <<>>))
                holders == {i \in 1..Len(kept) : TracesFrom(kept[i], p.id) # {}}
            IN  /\ (neighbors \subseteq prunedIds /\ sameTopic # {}) =>
                     /\ Cardinality(holders) = 1
                     /\ \A i \in holders :
                          i \in sameTopic
                            /\ Cardinality({h \in sameTopic : h < i}) < AbsorbPool
                /\ (~(neighbors \subseteq prunedIds)
                      /\ neighbors \cap Range(Ids(kept)) = {}) => holders = {}

\* C23: prune emits exactly one room_pruned event per pruned room, in prune
\* order; its involved rooms are the pruned room's id followed by at most 3
\* ids, each of a room kept by the call and adjacent to the pruned room in
\* the edge list.
C23_PrunedEvents ==
    last.op = "prune" =>
        LET out == last.out
        IN  /\ Len(out.events) = Len(out.pruned)
            /\ \A j \in 1..Len(out.pruned) :
                 LET involved == out.events[j].involvedRooms
                 IN  /\ out.events[j].type = "room_pruned"
                     /\ Len(involved) >= 1 /\ Len(involved) <= 4
                     /\ involved[1] = out.pruned[j].id
                     /\ \A k \in 2..Len(involved) :
                          /\ involved[k] \in Range(Ids(out.kept))
                          /\ Adjacent(out.pruned[j].id, involved[k], last.in.corridors)

\* what holds of the events: the ids after the first are the first 3
\* neighbours, in edge order, that are not pruned in the call, kept or gone
C23_EventsAsCoded ==
    last.op = "prune" =>
        LET out == last.out
            prunedIds == Range(Ids(out.pruned))
        IN  /\ Len(out.events) = Len(out.pruned)
            /\ \A j \in 1..Len(out.pruned) :
                 LET involved == out.events[j].involvedRooms
                 IN  /\ involved[1] = out.pruned[j].id
                     /\ Len(involved) <= 4
                     /\ \A k \in 2..Len(involved) :
                          /\ involved[k] \notin prunedIds
                          /\ Adjacent(out.pruned[j].id, involved[k], last.in.corridors)

\* the trace the pruned room p leaves at time t
TraceOf(p, t) == [from |-> p.id, topic |-> p.topic, absorbedAt |-> t]

\* the traces of the pruned rooms at the positions given, in prune order
RECURSIVE TracesOfPruned(_, _, _, _)
TracesOfPruned(pruned, positions, k, t) ==
    IF k > Len(pruned) THEN <<>>
    ELSE (IF k \in positions THEN <<TraceOf(pruned[k], t)>> ELSE <<>>)
           \o TracesOfPruned(pruned, positions, k + 1, t)

\* the input room with this id
PruneInput(id) == last.in.rooms[CHOOSE i \in 1..Len(last.in.rooms) : last.in.rooms[i].id = id]

\* C25: a room that holds at most 5 traces before prune holds at most 5
\* after it, however many of its neighbours were pruned: each pruned
\* neighbour appends one trace at the tail, in prune order, and the oldest
\* traces at the head are evicted beyond 5 (a pruned room of its topic that
\* it absorbed appends one likewise); rooms pruned in the same call leave no
\* trace in each other.
C25_TraceCap ==
    last.op = "prune" =>
        LET out == last.out
            all == 1..Len(out.pruned)
        IN  /\ \A i \in 1..Len(out.kept) :
                 LET before == PruneInput(out.kept[i].id).traces
                     pruned == {j \in all : Adjacent(out.pruned[j].id, out.kept[i].id,
                                                     last.in.corridors)}
                 IN  Len(before) <= TraceCap =>
                       /\ Len(out.kept[i].traces) <= TraceCap
                       /\ \E absorbed \in SUBSET (all \ pruned) :
                            out.kept[i].traces =
                              SliceLast(before \o TracesOfPruned(out.pruned,
                                                                 pruned \cup absorbed, 1, now),
                                        Min(TraceCap,
                                            Len(before) + Cardinality(pruned \cup absorbed)))
            /\ \A j \in all :
                 out.pruned[j].traces = PruneInput(out.pruned[j].id).traces

\* a kept room that held 5 traces and had two neighbours pruned, themselves
\* adjacent: it holds its 3 newest old traces and then theirs, in order
C25_Witness ==
    /\ last.op = "prune"
    /\ Len(last.out.pruned) = 2 /\ Len(last.out.kept) = 1
    /\ Adjacent(last.out.pruned[1].id, last.out.pruned[2].id, last.in.corridors)
    /\ Len(PruneInput(last.out.kept[1].id).traces) = TraceCap
    /\ last.out.kept[1].traces =
         SubSeq(OldTraces(TraceCap), 3, TraceCap)
           \o <<TraceOf(last.out.pruned[1], now), TraceOf(last.out.pruned[2], now)>>

\* C27: refreshRooms(rooms, newRooms, currentCycle) sets the last-refreshed
\* cycle to currentCycle for exactly the existing rooms whose topic occurs
\* among the new rooms, sets the last-refreshed and the added cycle of every
\* new room to currentCycle, and leaves every other existing room, its
\* last-refreshed and added cycle included, as it was.
C27_RefreshRooms ==
    last.op = "refresh" =>
        LET newTopics == {last.newRooms[i].topic : i \in 1..Len(last.newRooms)}
            rooms == last.in.rooms
        IN  /\ Len(state.rooms) = Len(rooms)
            /\ \A i \in 1..Len(rooms) :
                 IF rooms[i].topic \in newTopics
                 THEN state.rooms[i] =
                        [rooms[i] EXCEPT !.lastRefreshedCycle = last.currentCycle]
                 ELSE state.rooms[i] = rooms[i]
            /\ Len(last.out) = Len(last.newRooms)
            /\ \A i \in 1..Len(last.newRooms) :
                 last.out[i] = [last.newRooms[i] EXCEPT
                                  !.lastRefreshedCycle = last.currentCycle,
                                  !.addedCycle = last.currentCycle]

\* a call with a new liminal room on a world with a stale liminal room, which
\* is refreshed, and a stale tech room, which is not
C27_Witness ==
    /\ last.op = "refresh"
    /\ \E i \in 1..Len(last.newRooms) : last.newRooms[i].topic = "liminal"
    /\ \A i \in 1..Len(last.newRooms) : last.newRooms[i].topic # "tech"
    /\ last.currentCycle = DefaultStaleCycles + 2
    /\ \E i, j \in 1..Len(state.rooms) :
         /\ state.rooms[i].topic = "liminal"
         /\ last.in.rooms[i].lastRefreshedCycle = 1
         /\ state.rooms[i].lastRefreshedCycle = last.currentCycle
         /\ state.rooms[i].addedCycle = 1
         /\ state.rooms[j].topic = "tech"
         /\ state.rooms[j].lastRefreshedCycle = 1
    /\ \A i \in 1..Len(last.out) : last.out[i].addedCycle = last.currentCycle


(***************************************************************************)
(* Specification SpecDecay: DecayEngine.tick on drawn rooms, as the clock  *)
(* advances                                                                *)
(***************************************************************************)
\* the clock stops here
MaxNow == 8

\* the steps of the clock
ClockSteps == {1, 2}

\* the creation times drawn: a room may carry a creation time ahead of the
\* clock (a state persisted under another clock, or a clock set back)
CreationTimes == {0, 2}

InitDecay ==
    /\ \E n \in 1..2 :
         \E virality \in [1..n -> {0, 50}], createdAt \in [1..n -> CreationTimes] :
           state = [ observationCycles |-> 0,
                     rooms |-> [i \in 1..n |->
                                  GenerateRoom(i, [topic |-> "tech", sentiment |-> 0,
                                                   virality |-> virality[i]],
                                               createdAt[i])],
                     corridors |-> <<>> ]
    /\ entityTracker = <<>>
    /\ now = 0
    /\ calls = <<>>
    /\ roomGen = [roomCount |-> 0]
    /\ last = NoCall

\* time passes
Advance ==
    /\ \E d \in ClockSteps : now + d <= MaxNow /\ now' = now + d
    /\ UNCHANGED <<state, entityTracker, calls, roomGen, last>>

\* one call DecayEngine.tick(rooms, now): the scores are written in place
TickCall ==
    /\ LET result == Tick(state.rooms, now)
       IN  /\ state' = [state EXCEPT !.rooms = result.rooms]
           /\ last' = [ op |-> "tick", in |-> state, now |-> now,
                        afterTick |-> last.op = "tick", out |-> result ]
    /\ UNCHANGED <<entityTracker, now, calls, roomGen>>

NextDecay == Advance \/ TickCall

SpecDecay == InitDecay /\ [][NextDecay]_vars

\* C5: for every room and all times now1 <= now2, tick at now2 writes a
\* score >= the score tick wrote at now1, and for every value of now the
\* score tick writes lies within [0,1].
C5_TickMonotoneInRange ==
    last.op = "tick" =>
        \A i \in 1..Len(state.rooms) :
            /\ state.rooms[i].entropy.score >= 0
            /\ state.rooms[i].entropy.score <= SCALE
            /\ last.afterTick =>
                 state.rooms[i].entropy.score >= last.in.rooms[i].entropy.score

\* the part of C5 the code keeps: a later tick never writes a lower score,
\* and no score exceeds 1
C5_TickMonotoneCapped ==
    last.op = "tick" =>
        \A i \in 1..Len(state.rooms) :
            /\ state.rooms[i].entropy.score <= SCALE
            /\ last.afterTick =>
                 state.rooms[i].entropy.score >= last.in.rooms[i].entropy.score

\* a second tick, at a later time, raised a score
C5_Witness ==
    /\ last.op = "tick"
    /\ last.afterTick
    /\ \E i \in 1..Len(state.rooms) :
         state.rooms[i].entropy.score > last.in.rooms[i].entropy.score


\* C17: a tick at a time exactly one half-life after the creation of a
\* room writes the score 0.5; the tolerance here is one unit of 1/SCALE,
\* wider than the 1e-9 of the statement.
C17_HalfAtHalfLife ==
    last.op = "tick" =>
        \A i \in 1..Len(state.rooms) :
            last.now - state.rooms[i].entropy.createdAt = state.rooms[i].entropy.halfLife
              => Abs(state.rooms[i].entropy.score - SCALE \div 2) <= 1

\* what the tick writes one half-life after creation: 1 - e^(-0.693), which
\* is 0.499926 to six places
C17_ScoreAtHalfLife ==
    last.op = "tick" =>
        \A i \in 1..Len(state.rooms) :
            last.now - state.rooms[i].entropy.createdAt = state.rooms[i].entropy.halfLife
              => state.rooms[i].entropy.score = 499926

(***************************************************************************)
(* Specification SpecTopo: the topology rebuild of World.cycle on drawn    *)
(* rooms                                                                   *)
(***************************************************************************)
\* sentiment (observer.js analyzeSentiment is within [-1,1]) and virality
\* of the drawn rooms, in hundredths
TopoSentiments == {-100, 0, 100}

TopoViralities == {0, 50}

InitTopo ==
    /\ \E n \in 1..MaxRooms :
         \E topic \in [1..n -> Topics], sentiment \in [1..n -> TopoSentiments],
            virality \in [1..n -> TopoViralities], stale \in BOOLEAN :
           /\ topic[1] = "tech"
           /\ state = [ observationCycles |-> 0,
                        rooms |-> [i \in 1..n |->
                                     [ GenerateRoom(i, [topic |-> topic[i],
                                                        sentiment |-> sentiment[i],
                                                        virality |-> virality[i]], 0)
                                       EXCEPT !.connections =
                                                IF stale THEN <<GhostId(n)>> ELSE <<>> ]],
                        corridors |-> <<>> ]
    /\ entityTracker = <<>>
    /\ now = 0
    /\ calls = <<>>
    /\ roomGen = [roomCount |-> 0]
    /\ last = NoCall

\* world.js:278-285: the connections are reset and the topology is rebuilt
Rebuild ==
    /\ last.op = "init"
    /\ \E seeds \in Seeds(state.rooms) :
         \E result \in {BuildTopology(state.rooms, seeds)} :
             /\ state' = [state EXCEPT !.rooms = result.rooms,
                                       !.corridors = result.corridors]
             /\ last' = [op |-> "rebuild", in |-> state, out |-> result]
    /\ UNCHANGED <<entityTracker, now, calls, roomGen>>

NextTopo == Rebuild

SpecTopo == InitTopo /\ [][NextTopo]_vars

\* C3: after a topology rebuild over more than one room, no room has an
\* empty connection list.
C3_Connectivity ==
    (last.op = "rebuild" /\ Len(state.rooms) > 1) =>
        \A i \in 1..Len(state.rooms) : state.rooms[i].connections # <<>>

\* a room alone in its topic and below the threshold to every other room
\* was given a partner by the repair pass
C3_Witness ==
    /\ last.op = "rebuild"
    /\ \E i \in 1..Len(state.rooms) :
         /\ \A j \in 1..Len(state.rooms) :
              j # i => /\ state.rooms[j].topic # state.rooms[i].topic
                       /\ Similarity(state.rooms[i], state.rooms[j]) < DefaultThreshold
         /\ state.rooms[i].connections # <<>>

\* the room of a rebuilt world with this id
RoomById(id) == state.rooms[CHOOSE i \in 1..Len(state.rooms) : state.rooms[i].id = id]

\* C4: after a topology rebuild, the endpoints of every recorded edge are
\* distinct, each endpoint's connection list contains the other, and no
\* unordered pair is recorded twice.
C4_EdgeSymmetry ==
    last.op = "rebuild" =>
        LET cs == state.corridors
        IN  /\ \A k \in 1..Len(cs) :
                 /\ cs[k].from # cs[k].to
                 /\ cs[k].to \in Range(RoomById(cs[k].from).connections)
                 /\ cs[k].from \in Range(RoomById(cs[k].to).connections)
            /\ \A k, m \in 1..Len(cs) :
                 {cs[k].from, cs[k].to} = {cs[m].from, cs[m].to} => k = m

\* a rebuild that recorded an intra-topic edge and an edge between topics
C4_Witness ==
    /\ last.op = "rebuild"
    /\ \E k, m \in 1..Len(state.corridors) :
         /\ RoomById(state.corridors[k].from).topic = RoomById(state.corridors[k].to).topic
         /\ RoomById(state.corridors[m].from).topic # RoomById(state.corridors[m].to).topic


\* C11: the similarity of any two rooms with sentiment in [-1,1] and
\* virality >= 0 lies within [0,1], and so does the similarity recorded on
\* every corridor of a rebuild, those of the repair pass included.
C11_SimilarityInRange ==
    last.op = "rebuild" =>
        /\ \A i, j \in 1..Len(state.rooms) :
             /\ Similarity(state.rooms[i], state.rooms[j]) >= 0
             /\ Similarity(state.rooms[i], state.rooms[j]) <= SCALE
        /\ \A k \in 1..Len(state.corridors) :
             /\ state.corridors[k].similarity >= 0
             /\ state.corridors[k].similarity <= SCALE

\* what holds of similarity: it is at most 1 and at least -0.3, and at
\* least 0.2 between rooms of one topic; every corridor carries the
\* similarity of its two rooms
C11_SimilarityAsCoded ==
    last.op = "rebuild" =>
        /\ \A i, j \in 1..Len(state.rooms) :
             /\ Similarity(state.rooms[i], state.rooms[j]) >= 0 - 300000
             /\ Similarity(state.rooms[i], state.rooms[j]) <= SCALE
             /\ state.rooms[i].topic = state.rooms[j].topic =>
                  Similarity(state.rooms[i], state.rooms[j]) >= 200000
        /\ \A k \in 1..Len(state.corridors) :
             state.corridors[k].similarity =
               Similarity(RoomById(state.corridors[k].from), RoomById(state.corridors[k].to))

\* the rooms of the rebuilt world of the topic, by position
TopicGroup(topic) == {j \in 1..Len(state.rooms) : state.rooms[j].topic = topic}

\* whether the rebuilt world has an edge between room i and a room of the topic
JoinedToTopic(i, topic) ==
    \E j \in TopicGroup(topic) :
        Adjacent(state.rooms[i].id, state.rooms[j].id, state.corridors)

\* whether the topic group is small enough to be tried whole and holds a
\* room at or above the threshold to room i
Reachable(i, topic) ==
    /\ Cardinality(TopicGroup(topic)) <= SampleSize
    /\ \E j \in TopicGroup(topic) :
         Similarity(state.rooms[i], state.rooms[j]) >= DefaultThreshold

\* C26: a room that ends the rebuild with fewer than 3 edges (so it had
\* fewer than 3 after the intra-topic pass and made fewer than 3 cross-topic
\* connections) has an edge into every other topic whose group, of at most 5
\* rooms, holds a room at or above the threshold to it, whatever the
\* position of its own topic in the iteration order.
C26_CrossTopicEdges ==
    last.op = "rebuild" =>
        \A i \in 1..Len(state.rooms) :
            Len(state.rooms[i].connections) < CrossLimit =>
                \A t \in 1..Len(TopicOrder(state.rooms, <<>>)) :
                    LET topic == TopicOrder(state.rooms, <<>>)[t]
                    IN  (topic # state.rooms[i].topic /\ Reachable(i, topic))
                            => JoinedToTopic(i, topic)

\* what holds of the cross-topic pass: the loop over the topics ends at the
\* room's own topic, so a room has an edge into every reachable topic that
\* comes before its own in the order of first appearance
C26_CrossAsCoded ==
    last.op = "rebuild" =>
        \A i \in 1..Len(state.rooms) :
            Len(state.rooms[i].connections) < CrossLimit =>
                \A t, own \in 1..Len(TopicOrder(state.rooms, <<>>)) :
                    LET topics == TopicOrder(state.rooms, <<>>)
                    IN  (topics[own] = state.rooms[i].topic /\ t < own
                           /\ Reachable(i, topics[t]))
                            => JoinedToTopic(i, topics[t])

(***************************************************************************)
(* Specification SpecGroup: the rebuild of a world whose rooms all have    *)
(* one topic, up to groups larger than the intra-topic limit               *)
(***************************************************************************)
\* the most rooms of the group
MaxGroup == 7

\* sentiment and virality of the drawn rooms, in hundredths: the
\* similarities within the group are 1, 0.7, 0.68 and 0.38
GroupProfiles == { <<-100, 0>>, <<0, 0>>, <<100, 50>> }

InitGroup ==
    /\ \E n \in 2..MaxGroup :
         \E profile \in [1..n -> GroupProfiles] :
           state = [ observationCycles |-> 0,
                     rooms |-> [i \in 1..n |->
                                  GenerateRoom(i, [topic |-> "tech",
                                                   sentiment |-> profile[i][1],
                                                   virality |-> profile[i][2]], 0)],
                     corridors |-> <<>> ]
    /\ entityTracker = <<>>
    /\ now = 0
    /\ calls = <<>>
    /\ roomGen = [roomCount |-> 0]
    /\ last = NoCall

NextGroup == Rebuild

SpecGroup == InitGroup /\ [][NextGroup]_vars

\* whether the rebuilt world records a corridor between the two room ids
Joined(a, b) ==
    \E k \in 1..Len(state.corridors) :
        {state.corridors[k].from, state.corridors[k].to} = {a, b}

\* C12: after a rebuild, in a topic group of at most 6 rooms every pair
\* whose similarity is at least 0.4 is joined by a corridor; in a larger
\* group every room is joined to its highest-similarity later members that
\* meet the threshold, 5 of them or all if they are fewer.
C12_IntraTopicEdges ==
    last.op = "rebuild" =>
        \A topic \in {state.rooms[i].topic : i \in 1..Len(state.rooms)} :
            LET group == {i \in 1..Len(state.rooms) : state.rooms[i].topic = topic}
                Sim(i, j) == Similarity(state.rooms[i], state.rooms[j])
                Later(i) == {j \in group : j > i}
                Meets(i) == {j \in Later(i) : Sim(i, j) >= 400000}
                \* later members sure to be among the 5 highest, whatever
                \* the order of equal similarities
                Top(i) == {j \in Meets(i) :
                             Cardinality({k \in Later(i) \ {j} : Sim(i, k) >= Sim(i, j)}) < 5}
                Linked(i) == {j \in Later(i) : Joined(state.rooms[i].id, state.rooms[j].id)}
            IN  /\ Cardinality(group) <= 6 =>
                     \A i \in group : \A j \in Meets(i) :
                         Joined(state.rooms[i].id, state.rooms[j].id)
                /\ \A i \in group :
                     /\ Top(i) \subseteq Linked(i)
                     /\ Cardinality(Linked(i) \cap Meets(i)) >= Min(5, Cardinality(Meets(i)))

\* a rebuild of a group of 7 whose first room has 6 later members meeting
\* the threshold, is joined to the 5 most similar and not to the sixth,
\* while a pair below the threshold stays apart
C12_Witness ==
    /\ last.op = "rebuild"
    /\ Len(state.rooms) = 7
    /\ \A j \in 2..7 : Similarity(state.rooms[1], state.rooms[j]) >= 400000
    /\ Cardinality({j \in 2..7 : Joined(state.rooms[1].id, state.rooms[j].id)}) = 5
    /\ \E j \in 2..7 :
         /\ ~Joined(state.rooms[1].id, state.rooms[j].id)
         /\ \A k \in 2..7 : Similarity(state.rooms[1], state.rooms[k])
                              >= Similarity(state.rooms[1], state.rooms[j])
    /\ \E i, j \in 2..7 :
         /\ Similarity(state.rooms[i], state.rooms[j]) < 400000
         /\ ~Joined(state.rooms[i].id, state.rooms[j].id)

(***************************************************************************)
(* Observations (src/unnamed/part_003:165-184): the texts the model draws  *)
(***************************************************************************)
Observation(id, text, topic, sentiment, virality) ==
    [id |-> id, text |-> text, topic |-> topic, sentiment |-> sentiment,
     virality |-> virality]

\* the topic and the sentiment are those classifyTopic and analyzeSentiment
\* give the text; no tweet below has likes or retweets, so virality is 0
\* "@Nex ai": a name-style mention, and the keyword ai of the topic tech
ObsUser == Observation(1, <<<<"@", "N", "e", "x">>, <<"a", "i">>>>, "tech", 0, 0)

\* "#nex": a tag-style mention of the same word
ObsHash == Observation(2, <<<<"#", "n", "e", "x">>>>, "liminal", 0, 0)

\* "world substrate": a boring word and a significant one
ObsWord == Observation(3, <<<<"w", "o", "r", "l", "d">>, <<"s", "u", "b", "s", "t", "r", "a", "t", "e">>>>, "liminal", 0, 0)

\* "void": no mention at all, and the keyword void of the topic existential
ObsQuiet == Observation(4, <<<<"v", "o", "i", "d">>>>, "existential", 0, 0)

Repeat(obs, n) == [i \in 1..n |-> obs]

(***************************************************************************)
(* Specification SpecEntity: EntityTracker.update over drawn batches of    *)
(* observations, as time passes                                            *)
(***************************************************************************)
\* the most update calls of a behaviour
MaxUpdates == 3

\* the batches of observations an update is given
EntityBatches ==
    { Repeat(ObsUser, 3), Repeat(ObsUser, 2), Repeat(ObsUser, 11),
      Repeat(ObsHash, 3), Repeat(ObsWord, 3), Repeat(ObsQuiet, 1),
      Repeat(ObsUser, 3) \o Repeat(ObsHash, 3) }

\* an inhabitant tracked since earlier cycles, with the strength it has
\* reached (loaded by EntityTracker.load)
TrackedBefore(strength) ==
    [ id |-> EntityId(ToLowerCase(<<"@", "N", "e", "x">>)), name |-> <<"@", "N", "e", "x">>,
      type |-> "person", topics |-> <<"tech">>, appearances |-> 1,
      firstSeen |-> 0, lastSeen |-> 0, strength |-> strength,
      currentRoom |-> 0, recentContexts |-> <<1>>, history |-> <<>> ]

\* the same inhabitant at strength 0, last seen exactly the timeout before
\* the clock of the model starts
TrackedFaded == [TrackedBefore(0) EXCEPT !.lastSeen = 0 - EntityTimeout]

\* the same inhabitant holding as many excerpts as are kept, none of them
\* of a drawn observation
TrackedLong ==
    [ TrackedBefore(500000) EXCEPT
        !.recentContexts = [k \in 1..ContextCap |-> 10 + k] ]

InitEntity ==
    /\ state = [observationCycles |-> 0, rooms |-> <<>>, corridors |-> <<>>]
    /\ entityTracker \in
         {<<>>, <<TrackedLong>>, <<TrackedFaded>>}
           \cup {<<TrackedBefore(s)>> : s \in {0, 50000, 950000, SCALE}}
    /\ now = 0
    /\ calls = <<>>
    /\ roomGen = [roomCount |-> 0]
    /\ last = [op |-> "init", updates |-> 0]

\* one call entityTracker.update(observations)
UpdateCall ==
    /\ last.updates < MaxUpdates
    /\ \E observations \in EntityBatches :
         LET result == UpdateEntities(entityTracker, observations,
                                      DefaultMinAppearances, now)
         IN  /\ entityTracker' = result.entities
             /\ last' = [ op |-> "update", updates |-> last.updates + 1,
                          in |-> entityTracker, observations |-> observations,
                          at |-> now, out |-> result ]
    /\ UNCHANGED <<state, now, calls, roomGen>>

\* more than the entity timeout passes
AdvanceTimeout ==
    /\ now + EntityTimeout + 1 <= MaxNow
    /\ now' = now + EntityTimeout + 1
    /\ UNCHANGED <<state, entityTracker, calls, roomGen, last>>

NextEntity == UpdateCall \/ AdvanceTimeout

SpecEntity == InitEntity /\ [][NextEntity]_vars

\* C6: after any sequence of EntityTracker.update calls every tracked
\* inhabitant's strength lies within [0,1].
C6_StrengthClamped ==
    last.op = "update" =>
        \A i \in 1..Len(entityTracker) :
            /\ entityTracker[i].strength >= 0
            /\ entityTracker[i].strength <= SCALE

\* an update that incremented an inhabitant at 0.95 and left it at 1, with
\* another inhabitant created in an earlier call
C6_Witness ==
    /\ last.op = "update"
    /\ Len(entityTracker) >= 2
    /\ \E i \in 1..Len(last.in), j \in 1..Len(entityTracker) :
         /\ last.in[i].id = entityTracker[j].id
         /\ last.in[i].strength = 950000
         /\ entityTracker[j].strength = SCALE

\* whether the mention's id is among the ids of the entities
TrackedIn(entities, data) ==
    \E i \in 1..Len(entities) : entities[i].id = EntityId(data.key)

\* whether an inhabitant of the mention's name and type is among the entities
\* with this strength
InhabitantOf(entities, data, strength) ==
    \E i \in 1..Len(entities) :
        /\ entities[i].name = data.name
        /\ entities[i].type = data.type
        /\ entities[i].strength = strength

\* C13: when an update returns, every mention that was not tracked and was
\* counted at least minAppearances times has a new inhabitant of strength
\* exactly 0.3 + min(0.5, count * 0.05), and a mention not tracked that was
\* counted fewer times has none.
C13_NewInhabitant ==
    last.op = "update" =>
        \A k \in 1..Len(last.out.mentions) :
            LET data == last.out.mentions[k]
            IN  ~TrackedIn(last.in, data) =>
                  IF data.count >= DefaultMinAppearances
                  THEN /\ InhabitantOf(last.out.newEntities, data, InitialStrength(data.count))
                       /\ InhabitantOf(entityTracker, data, InitialStrength(data.count))
                  ELSE \A i \in 1..Len(last.out.newEntities) :
                         ~(/\ last.out.newEntities[i].name = data.name
                           /\ last.out.newEntities[i].type = data.type)

\* what holds of update: the same, for the mentions that are not boring
\* words and share their id with no other mention of the call
C13_NewInhabitantAsCoded ==
    last.op = "update" =>
        \A k \in 1..Len(last.out.mentions) :
            LET data == last.out.mentions[k]
                boring == /\ data.type = "concept"
                          /\ Len(data.key) >= 5 /\ SubSeq(data.key, 1, 5) = WordPrefix
                          /\ data.name \in BoringWords
                alone == \A m \in 1..Len(last.out.mentions) :
                            EntityId(last.out.mentions[m].key) = EntityId(data.key) => m = k
            IN  ~TrackedIn(last.in, data) =>
                  IF data.count >= DefaultMinAppearances /\ ~boring /\ alone
                  THEN /\ InhabitantOf(last.out.newEntities, data, InitialStrength(data.count))
                       /\ InhabitantOf(entityTracker, data, InitialStrength(data.count))
                  ELSE data.count < DefaultMinAppearances \/ boring =>
                         \A i \in 1..Len(last.out.newEntities) :
                            ~(/\ last.out.newEntities[i].name = data.name
                              /\ last.out.newEntities[i].type = data.type)

\* whether update acts on the mention: it was counted often enough and is
\* not one of the skipped words
ActedOn(data) ==
    /\ data.count >= DefaultMinAppearances
    /\ ~(/\ data.type = "concept"
         /\ Len(data.key) >= 5 /\ SubSeq(data.key, 1, 5) = WordPrefix
         /\ data.name \in BoringWords)

\* whether the mention is the one the inhabitant is named after
MentionOf(entity, data) ==
    \/ data.key = ToLowerCase(entity.name)
    \/ data.key = WordPrefix \o ToLowerCase(entity.name)

\* C20: inhabitant ids are unique per mention key: after an update any two
\* distinct mention keys it acted on are tracked as two distinct
\* inhabitants, and an inhabitant none of whose own mentions was acted on
\* has not been updated by another's.
C20_DistinctInhabitants ==
    last.op = "update" =>
        /\ \A k, m \in 1..Len(last.out.mentions) :
             (k # m /\ ActedOn(last.out.mentions[k]) /\ ActedOn(last.out.mentions[m])) =>
                \E i, j \in 1..Len(entityTracker) :
                    /\ i # j
                    /\ entityTracker[i].id = EntityId(last.out.mentions[k].key)
                    /\ entityTracker[j].id = EntityId(last.out.mentions[m].key)
        /\ \A i \in 1..Len(last.in) :
             (\A k \in 1..Len(last.out.mentions) :
                  ActedOn(last.out.mentions[k]) => ~MentionOf(last.in[i], last.out.mentions[k]))
               => \A j \in 1..Len(entityTracker) :
                    entityTracker[j].id = last.in[i].id =>
                      /\ entityTracker[j].appearances = last.in[i].appearances
                      /\ entityTracker[j].lastSeen = last.in[i].lastSeen

\* what holds of update: the tracked inhabitants have pairwise distinct
\* ids, every mention acted on has the inhabitant of its id, and an
\* inhabitant is updated exactly by the mentions acted on that share its id
C20_IdsAsCoded ==
    last.op = "update" =>
        /\ \A i, j \in 1..Len(entityTracker) :
             entityTracker[i].id = entityTracker[j].id => i = j
        /\ \A k \in 1..Len(last.out.mentions) :
             ActedOn(last.out.mentions[k]) =>
               \E i \in 1..Len(entityTracker) :
                   entityTracker[i].id = EntityId(last.out.mentions[k].key)
        /\ \A i \in 1..Len(last.in) :
             (\A k \in 1..Len(last.out.mentions) :
                  ActedOn(last.out.mentions[k]) =>
                    EntityId(last.out.mentions[k].key) # last.in[i].id)
               => \A j \in 1..Len(entityTracker) :
                    entityTracker[j].id = last.in[i].id =>
                      /\ entityTracker[j].appearances = last.in[i].appearances
                      /\ entityTracker[j].lastSeen = last.in[i].lastSeen

\* the mentions of the call that update looks up under the inhabitant's id
\* and acts on
ActingOn(entity, mentions) ==
    {k \in 1..Len(mentions) :
        EntityId(mentions[k].key) = entity.id /\ ActedOn(mentions[k])}

\* the inhabitants tracked after the call that have the id
After(id) == {j \in 1..Len(entityTracker) : entityTracker[j].id = id}

\* C30: in one update call a tracked inhabitant whose mention meets the
\* threshold has its strength changed by exactly +0.1, capped at 1, and is
\* not decayed as well; a tracked inhabitant that is not mentioned at all has
\* its strength changed by exactly -0.05, floored at 0 (and may then be
\* removed as dead); no inhabitant holds more than 10 excerpts.
C30_StrengthChange ==
    last.op = "update" =>
        /\ \A i \in 1..Len(last.in) :
             LET e == last.in[i]
                 mentions == last.out.mentions
                 unmentioned == /\ \A k \in 1..Len(mentions) :
                                     EntityId(mentions[k].key) # e.id
                                /\ ~WasSeen(e, mentions)
             IN  /\ ActingOn(e, mentions) # {} =>
                       /\ After(e.id) # {}
                       /\ \A j \in After(e.id) :
                            entityTracker[j].strength = Min(SCALE, e.strength + 100000)
                 /\ unmentioned =>
                       \/ After(e.id) = {} /\ e.strength <= 50000
                       \/ /\ After(e.id) # {}
                          /\ \A j \in After(e.id) :
                               entityTracker[j].strength = Max(0, e.strength - 50000)
        /\ \A j \in 1..Len(entityTracker) :
             Len(entityTracker[j].recentContexts) <= ContextCap

\* strength raised by 0.1, capped at 1, n times
RECURSIVE RaisedTimes(_, _)
RaisedTimes(strength, n) ==
    IF n = 0 THEN strength ELSE RaisedTimes(Min(SCALE, strength + 100000), n - 1)

\* what holds of update: the strength is raised once for every mention
\* acted on whose key normalises to the inhabitant's id, and is then lowered
\* by 0.05 unless a mention of the call has the inhabitant's name as its
\* key; no inhabitant holds more than 10 excerpts
C30_StrengthAsCoded ==
    last.op = "update" =>
        /\ \A i \in 1..Len(last.in) :
             LET e == last.in[i]
                 mentions == last.out.mentions
                 raised == RaisedTimes(e.strength, Cardinality(ActingOn(e, mentions)))
                 left == IF WasSeen(e, mentions) THEN raised ELSE Max(0, raised - 50000)
             IN  \/ After(e.id) = {} /\ left = 0
                 \/ /\ After(e.id) # {}
                    /\ \A j \in After(e.id) : entityTracker[j].strength = left
        /\ \A j \in 1..Len(entityTracker) :
             Len(entityTracker[j].recentContexts) <= ContextCap

\* the strength update leaves an inhabitant tracked before the call with,
\* before the dead are removed (C30_StrengthAsCoded)
StrengthLeft(e, mentions) ==
    LET raised == RaisedTimes(e.strength, Cardinality(ActingOn(e, mentions)))
    IN  IF WasSeen(e, mentions) THEN raised ELSE Max(0, raised - 50000)

\* the last-seen time update leaves it with
LastSeenLeft(e, mentions, t) == IF ActingOn(e, mentions) # {} THEN t ELSE e.lastSeen

MaxMemoryCalls == 52

\* the most EventTracker.record calls of a behaviour
MaxRecords == 3

\* the rooms pruned in a large collapse
CollapseSize == 60

\* the rooms whose statistics the memory snapshots
MemoryRooms ==
    << GenerateRoom(1, [topic |-> "tech", sentiment |-> 100, virality |-> 0], 0),
       GenerateRoom(2, [topic |-> "tech", sentiment |-> -55, virality |-> 0], 0),
       GenerateRoom(3, [topic |-> "liminal", sentiment |-> -100, virality |-> 50], 0) >>

\* the memories a state starts with: none, one with a configured cap, one
\* whose cap is 0 and so reads as the default
InitialMemories ==
    { [EmptyMemory EXCEPT !.maxHistoryLength = cap] : cap \in {0, 2} }

\* the events of one cycle: a single emergence, or a large collapse with one
\* room_pruned event per room
EventBatches ==
    { << Event(0, "topic_emerged", "tech", <<1>>, <<>>) >>,
      [i \in 1..CollapseSize |-> Event(0, "room_pruned", "liminal", <<i>>, <<>>)] }

InitMemory ==
    /\ \E base \in {[observationCycles |-> 0, rooms |-> MemoryRooms, corridors |-> <<>>]} :
         state \in {base} \cup {SetField(base, "memory", m) : m \in InitialMemories}
    /\ entityTracker = <<>>
    /\ now = 0
    /\ calls = <<>>
    /\ roomGen = [roomCount |-> 0]
    /\ last = [op |-> "init", records |-> 0]

\* world.js:301-302: the cycle counter advances and MemoryEngine.update runs
MemoryCall ==
    /\ state.observationCycles < MaxMemoryCalls
    /\ LET counted == [state EXCEPT !.observationCycles = @ + 1]
       IN  /\ state' = SetField(counted, "memory", MemoryUpdate(counted, now))
           /\ last' = [op |-> "memory", records |-> last.records, in |-> state]
    /\ UNCHANGED <<entityTracker, now, calls, roomGen>>

\* one call EventTracker.record(state, newEvents)
RecordCall ==
    /\ last.records < MaxRecords
    /\ \E newEvents \in EventBatches :
         /\ state' = SetField(state, "events", Record(state, newEvents))
         /\ last' = [ op |-> "record", records |-> last.records + 1, in |-> state,
                      newEvents |-> newEvents ]
    /\ UNCHANGED <<entityTracker, now, calls, roomGen>>

NextMemory == MemoryCall \/ RecordCall

SpecMemory == InitMemory /\ [][NextMemory]_vars

\* s holds the newest Min(cap, Len(full)) entries of full, in order
IsNewestOf(s, full, cap) ==
    /\ Len(s) = Min(cap, Len(full))
    /\ \A k \in 1..Len(s) : s[k] = full[Len(full) - Len(s) + k]

\* C7: after a memory update each history holds at most the configured cap
\* of entries (50 when none is configured), after an event record the log
\* holds at most 100; the oldest entries were dropped and the newest are
\* kept in order, the entry of this cycle last.
C7_BoundedLogs ==
    /\ last.op = "memory" =>
         LET before == IF Has(last.in, "memory") THEN last.in.memory
                       ELSE [topicHistory |-> <<>>, totalRoomHistory |-> <<>>,
                             maxHistoryLength |-> 0]
             cap == IF before.maxHistoryLength = 0 THEN 50
                    ELSE before.maxHistoryLength
             topics == state.memory.topicHistory
             totals == state.memory.totalRoomHistory
         IN  /\ Len(topics) <= cap /\ Len(totals) <= cap
             /\ topics # <<>> /\ totals # <<>>
             /\ topics[Len(topics)].cycle = state.observationCycles
             /\ totals[Len(totals)].cycle = state.observationCycles
             /\ IsNewestOf(topics, Append(before.topicHistory, topics[Len(topics)]), cap)
             /\ IsNewestOf(totals, Append(before.totalRoomHistory, totals[Len(totals)]), cap)
    /\ last.op = "record" =>
         LET before == IF Has(last.in, "events") THEN last.in.events ELSE <<>>
         IN  /\ Len(state.events) <= 100
             /\ IsNewestOf(state.events, before \o last.newEvents, 100)

\* an event record that dropped old events from a full log, in a world
\* whose memory histories stand at the default cap with their first
\* cycles dropped
C7_Witness ==
    /\ last.op = "record"
    /\ Has(last.in, "events")
    /\ Len(last.in.events) + Len(last.newEvents) > 100
    /\ Len(state.events) = 100
    /\ Has(state, "memory")
    /\ Len(state.memory.topicHistory) = 50
    /\ state.memory.topicHistory[1].cycle > 1
    /\ Len(state.memory.totalRoomHistory) = 50

(***************************************************************************)
(* Specification SpecTrends: MemoryEngine.analyzeTrends over the memories  *)
(* that MemoryEngine.update builds as the rooms of the world change        *)
(***************************************************************************)
\* the most snapshots of a behaviour: both windows of analyzeTrends full
MaxSnapshots == 6

TrendRoom(id, topic) == GenerateRoom(id, [topic |-> topic, sentiment |-> 0, virality |-> 0], 0)

\* the rooms a cycle may leave in the world: none, one or three of a topic,
\* one of another, two and one, three of the other with one of a third
TrendWorlds ==
    { <<>>,
      <<TrendRoom(1, "tech")>>,
      <<TrendRoom(1, "tech"), TrendRoom(2, "tech"), TrendRoom(3, "tech")>>,
      <<TrendRoom(1, "liminal")>>,
      <<TrendRoom(1, "tech"), TrendRoom(2, "liminal"), TrendRoom(3, "tech")>>,
      <<TrendRoom(1, "liminal"), TrendRoom(2, "liminal"), TrendRoom(3, "existential"),
        TrendRoom(4, "liminal")>> }

\* the cap of the histories of a memory that has one configured: both
\* windows of analyzeTrends, less one snapshot
TrendCap == 2 * RecentWindow - 1

InitTrends ==
    /\ \E base \in {[observationCycles |-> 0, rooms |-> <<>>, corridors |-> <<>>]} :
         state \in {base, SetField(base, "memory",
                                   [EmptyMemory EXCEPT !.maxHistoryLength = TrendCap])}
    /\ entityTracker = <<>>
    /\ now = 0
    /\ calls = <<>>
    /\ roomGen = [roomCount |-> 0]
    /\ last = NoCall

\* world.js:301-302 after a cycle that left the drawn rooms: the cycle
\* counter advances and MemoryEngine.update runs
SnapshotCall ==
    /\ state.observationCycles < MaxSnapshots
    /\ \E rooms \in TrendWorlds :
         \E counted \in {[state EXCEPT !.observationCycles = @ + 1, !.rooms = rooms]} :
             /\ state' = SetField(counted, "memory", MemoryUpdate(counted, now))
             /\ last' = [op |-> "memory"]
    /\ UNCHANGED <<entityTracker, now, calls, roomGen>>

\* world.js:303: one call MemoryEngine.analyzeTrends(state)
TrendsCall ==
    /\ last.op # "trends"
    /\ last' = [op |-> "trends", out |-> AnalyzeTrends(state)]
    /\ UNCHANGED <<state, entityTracker, now, calls, roomGen>>

NextTrends == SnapshotCall \/ TrendsCall

SpecTrends == InitTrends /\ [][NextTrends]_vars

\* the topic history of the state, empty when there is no memory
HistoryOf(st) == IF Has(st, "memory") THEN st.memory.topicHistory ELSE <<>>

\* the number of entries of a list that are about the topic
EntriesOn(list, topic) ==
    Cardinality({k \in 1..Len(list) : "topic" \in DOMAIN list[k] /\ list[k].topic = topic})

\* whether the analysis of the state's history sorted every topic of its
\* two windows into exactly one list by the stated rule, with one insight
\* for a growing or fading topic and none for a stable one
ClassifiedByRule(st, out) ==
    LET recent == SliceLast(HistoryOf(st), RecentWindow)
        older == OlderWindow(HistoryOf(st))
    IN  \A topic \in WindowTopics(recent) \cup WindowTopics(older) :
            LET r == AvgCount(recent, topic, [total |-> 0, count |-> 0])
                o == AvgCount(older, topic, [total |-> 0, count |-> 0])
                inRecent == topic \in WindowTopics(recent)
                inOlder == topic \in WindowTopics(older)
                grows == (~inOlder /\ inRecent) \/ (inOlder /\ inRecent /\ RatioAbove(r, o))
                fades == (inOlder /\ ~inRecent) \/ (inOlder /\ inRecent /\ RatioBelow(r, o))
            IN  /\ EntriesOn(out.growing, topic) = (IF grows THEN 1 ELSE 0)
                /\ EntriesOn(out.fading, topic) = (IF ~grows /\ fades THEN 1 ELSE 0)
                /\ EntriesOn(out.stable, topic) = (IF ~grows /\ ~fades THEN 1 ELSE 0)
                /\ EntriesOn(out.insights, topic) = (IF grows \/ fades THEN 1 ELSE 0)

C15_EmptyOnlyBelowTwo ==
    last.op = "trends" =>
        /\ Len(HistoryOf(state)) < 2 => last.out = EmptyTrends
        /\ Len(HistoryOf(state)) >= 2 =>
             \A topic \in WindowTopics(SliceLast(HistoryOf(state), RecentWindow)) :
                 EntriesOn(last.out.growing, topic) + EntriesOn(last.out.fading, topic)
                   + EntriesOn(last.out.stable, topic) = 1

\* what holds of analyzeTrends: the result is empty below 4 snapshots, and
\* from 4 on every topic of the recent snapshots is in one of the lists
C15_EmptyBelowFour ==
    last.op = "trends" =>
        /\ Len(HistoryOf(state)) <= RecentWindow => last.out = EmptyTrends
        /\ Len(HistoryOf(state)) > RecentWindow =>
             \A topic \in WindowTopics(SliceLast(HistoryOf(state), RecentWindow)) :
                 EntriesOn(last.out.growing, topic) + EntriesOn(last.out.fading, topic)
                   + EntriesOn(last.out.stable, topic) = 1

\* the sum of the counts of a topic over the snapshots, an absent topic
\* counting as 0, and the number of snapshots that hold the topic
RECURSIVE WindowSum(_, _)
WindowSum(snapshots, topic) ==
    IF snapshots = <<>> THEN 0
    ELSE (IF topic \in DOMAIN Head(snapshots).topics
          THEN Head(snapshots).topics[topic].count ELSE 0)
         + WindowSum(Tail(snapshots), topic)

Holding(snapshots, topic) ==
    Cardinality({i \in 1..Len(snapshots) : topic \in DOMAIN snapshots[i].topics})

\* the fractions a and b are the same number
SameFraction(a, b) == a.total * b.count = b.total * a.count

\* whether the entries of the list on the topic all report the change
ReportsChange(list, topic, change) ==
    \A k \in 1..Len(list) : list[k].topic = topic => SameFraction(list[k].change, change)

\* C35: in analyzeTrends the recent and the older mean of a topic are the
\* sum of its counts over the snapshots of the window (0 where the topic
\* is absent) divided by the number of snapshots in the window; a topic new
\* to the recent window is reported with that mean as its change.
C35_WindowMeans ==
    last.op = "trends" =>
        LET recent == SliceLast(HistoryOf(state), RecentWindow)
            older == OlderWindow(HistoryOf(state))
        IN  \A topic \in WindowTopics(recent) \ WindowTopics(older) :
                ReportsChange(last.out.growing, topic,
                              [total |-> WindowSum(recent, topic), count |-> Len(recent)])

\* what holds of analyzeTrends: the mean is taken over the snapshots of the
\* window that hold the topic
C35_MeansAsCoded ==
    last.op = "trends" =>
        LET recent == SliceLast(HistoryOf(state), RecentWindow)
            older == OlderWindow(HistoryOf(state))
        IN  /\ \A topic \in WindowTopics(recent) \ WindowTopics(older) :
                 ReportsChange(last.out.growing, topic,
                               [total |-> WindowSum(recent, topic),
                                count |-> Holding(recent, topic)])
            /\ \A topic \in WindowTopics(older) \ WindowTopics(recent) :
                 ReportsChange(last.out.fading, topic,
                               [total |-> 0 - WindowSum(older, topic),
                                count |-> Holding(older, topic)])

\* the total-count history of the state, empty when there is no memory
TotalsOf(st) == IF Has(st, "memory") THEN st.memory.totalRoomHistory ELSE <<>>

\* the insights on the number of rooms
RoomInsights(out) ==
    {k \in 1..Len(out.insights) : out.insights[k].kind \in {"contracting", "expanding"}}

\* C36: whenever analyzeTrends produces a contraction or expansion insight,
\* the current total room count was compared with the total recorded
\* exactly 3 snapshots earlier, contraction meaning the current count is
\* below 80% of it and expansion above 130% of it, after any sequence of
\* MemoryEngine.update calls from empty histories.
C36_ThreeSnapshotsEarlier ==
    last.op = "trends" =>
        LET totals == TotalsOf(state)
        IN  \A k \in RoomInsights(last.out) :
                LET insight == last.out.insights[k]
                IN  /\ Len(totals) > RecentWindow
                    /\ insight.to = totals[Len(totals)].count
                    /\ insight.from = totals[Len(totals) - RecentWindow].count
                    /\ insight.kind = "contracting" => 10 * insight.to < 8 * insight.from
                    /\ insight.kind = "expanding" => 10 * insight.to > 13 * insight.from

\* an analysis of histories trimmed to their cap found the world
\* contracted against the count of 3 snapshots earlier although the count
\* of 2 snapshots earlier is the current one
C36_Witness ==
    /\ last.op = "trends"
    /\ Len(TotalsOf(state)) > RecentWindow
    /\ \E k \in RoomInsights(last.out) : last.out.insights[k].kind = "contracting"
    /\ TotalsOf(state)[Len(TotalsOf(state)) - 2].count = TotalsOf(state)[Len(TotalsOf(state))].count
    /\ state.observationCycles > Len(TotalsOf(state))

\* the sum of the counts of the topics of a snapshot
RECURSIVE SumCounts(_, _)
SumCounts(topics, left) ==
    IF left = {} THEN 0
    ELSE LET topic == CHOOSE x \in left : TRUE
         IN  topics[topic].count + SumCounts(topics, left \ {topic})

\* C39: after any sequence of MemoryEngine.update calls from empty
\* histories, the topic history and the total-count history have the same
\* length, entries at the same index carry the same cycle value, and the
\* per-topic counts of each topic snapshot sum to the total count of the
\* snapshot paired with it.
C39_PairedHistories ==
    Has(state, "memory") =>
        LET topics == HistoryOf(state)
            totals == TotalsOf(state)
        IN  /\ Len(topics) = Len(totals)
            /\ \A k \in 1..Min(Len(topics), Len(totals)) :
                 /\ topics[k].cycle = totals[k].cycle
                 /\ SumCounts(topics[k].topics, DOMAIN topics[k].topics) = totals[k].count

\* both histories were trimmed to their cap, and a snapshot of four rooms
\* of two topics is paired with a total of 4
C39_Witness ==
    /\ Has(state, "memory")
    /\ Len(HistoryOf(state)) = TrendCap
    /\ Len(TotalsOf(state)) = TrendCap
    /\ HistoryOf(state)[1].cycle > 1
    /\ \E k \in 1..Len(HistoryOf(state)) :
         /\ Cardinality(DOMAIN HistoryOf(state)[k].topics) = 2
         /\ TotalsOf(state)[k].count = 4

(***************************************************************************)
(* RoomGenerator.generateRooms (engine/rooms.js:157-190)                   *)
(***************************************************************************)
\* rooms.js:63-65: the id of a room is drawn at random from 2^32 values; the
\* model gives the room numbered n an id that no persisted room has
GeneratedId(number) == MaxRooms + number

\* obs placed behind the observations of the same or a higher virality
InsertByVirality(sorted, obs) ==
    LET Before(o) == o.virality >= obs.virality
        k == Len(SelectSeq(sorted, Before))
    IN  SubSeq(sorted, 1, k) \o <<obs>> \o SubSeq(sorted, k + 1, Len(sorted))

\* rooms.js:173: group.sort((a, b) => b.virality - a.virality), a stable sort
RECURSIVE SortedByVirality(_)
SortedByVirality(group) ==
    IF group = <<>> THEN <<>>
    ELSE InsertByVirality(SortedByVirality(SliceFirst(group, Len(group) - 1)),
                          group[Len(group)])

\* rooms.js:168-186: the observations of one cluster that become rooms: all
\* of a cluster of one or two, the most viral third of a larger one
RoomSeeds(group) ==
    IF Len(group) <= 2 THEN group
    ELSE SliceFirst(SortedByVirality(group), (Len(group) + 2) \div 3)

\* RoomGenerator.generateRooms(observations) at time t, roomCount rooms
\* having been generated before
GenerateRooms(observations, roomCount, t) ==
    LET topics == TopicOrder(observations, <<>>)
        Cluster(topic) == LET OfTopic(o) == o.topic = topic
                          IN  SelectSeq(observations, OfTopic)
        seeds == Flatten([k \in 1..Len(topics) |-> RoomSeeds(Cluster(topics[k]))])
    IN  [k \in 1..Len(seeds) |-> GenerateRoom(GeneratedId(roomCount + k), seeds[k], t)]

(***************************************************************************)
(* EntityTracker.load, wander, toArray (src/unnamed/part_003)              *)
(***************************************************************************)
\* part_003:392: a movement history keeps this many transitions
MovementCap == 20

\* part_003:380: the pick is among this many rooms
WanderPool == 3

\* a slip: the matching rooms are taken in list order, unsorted
InListOrder(rooms) == rooms

\* room placed behind the rooms of the same or a lower entropy score
InsertByScore(sorted, room) ==
    LET Before(r) == r.entropy.score <= room.entropy.score
        k == Len(SelectSeq(sorted, Before))
    IN  SubSeq(sorted, 1, k) \o <<room>> \o SubSeq(sorted, k + 1, Len(sorted))

\* part_003:379: relevantRooms.sort((a, b) => a.entropy.score - b.entropy.score)
RECURSIVE SortedByScore(_)
SortedByScore(rooms) ==
    IF rooms = <<>> THEN <<>>
    ELSE InsertByScore(SortedByScore(SliceFirst(rooms, Len(rooms) - 1)),
                       rooms[Len(rooms)])

\* part_003:370-392: one inhabitant wanders; pick stands for
\* Math.floor(Math.random() * Math.min(3, sorted.length)); currentRoom 0 is null
WanderOne(entity, rooms, pick, t) ==
    LET Relevant(r) == r.topic \in Range(entity.topics)
        relevantRooms == SelectSeq(rooms, Relevant)
        sorted == SortedByScore(relevantRooms)
        picked == sorted[(pick % Min(WanderPool, Len(sorted))) + 1]
        previousRoom == entity.currentRoom
        moved == Append(entity.history,
                        [from |-> previousRoom, to |-> picked.id, timestamp |-> t])
    IN  IF relevantRooms = <<>> THEN entity
        ELSE [entity EXCEPT
                !.currentRoom = picked.id,
                !.history = IF previousRoom # 0 /\ previousRoom # picked.id
                            THEN IF Len(moved) > MovementCap THEN Tail(moved) ELSE moved
                            ELSE @]

\* EntityTracker.wander(rooms): picks[i] is the random draw of inhabitant i
Wander(entities, rooms, picks, t) ==
    [i \in 1..Len(entities) |-> WanderOne(entities[i], rooms, picks[i], t)]

\* part_003:227-232 EntityTracker.load(entityList): entities.set(id, entity)
\* for each listed entity, a known id keeping its place in the Map
RECURSIVE LoadEntities(_, _)
LoadEntities(entities, entityList) ==
    IF entityList = <<>> THEN entities
    ELSE LET entity == Head(entityList)
             HasId(e) == e.id = entity.id
             idx == FirstIndex(entities, HasId)
         IN  LoadEntities(IF idx = 0 THEN Append(entities, entity)
                          ELSE [entities EXCEPT ![idx] = entity],
                          Tail(entityList))

\* the entity objects of state.entities are the objects of the tracker's
\* Map: a listed entity reads as the tracker holds it
Aliased(entityList, entities) ==
    [i \in 1..Len(entityList) |->
        LET HasId(e) == e.id = entityList[i].id
            idx == FirstIndex(entities, HasId)
        IN  IF idx = 0 THEN entityList[i] ELSE entities[idx]]

(***************************************************************************)
(* TwitterObserver.observe (src/unnamed/part_003:190-207)                  *)
(***************************************************************************)
\* searchTweets rejected: a network error or a timeout
Rejected == [kind |-> "rejected", status |-> 0, hasData |-> FALSE, tweets |-> <<>>]

\* searchTweets resolved to {status, data}; hasData is whether data.data is
\* there, tweets the observations processObservations makes of it
Resolved(status, hasData, tweets) ==
    [kind |-> "resolved", status |-> status, hasData |-> hasData, tweets |-> tweets]

\* a slip: a rejected query discards what the earlier queries brought
ObserveQueryAborts(allObservations, outcome) ==
    IF outcome.kind = "rejected" THEN <<>>
    ELSE IF outcome.status = 200 /\ outcome.hasData
         THEN allObservations \o outcome.tweets
         ELSE allObservations

\* part_003:193-203: one turn of the loop over the queries, the search
\* having settled with outcome: allObservations afterwards
ObserveQuery(allObservations, outcome) ==
    IF outcome.kind = "rejected" THEN allObservations
    ELSE IF outcome.status = 200 /\ outcome.hasData
         THEN allObservations \o outcome.tweets
         ELSE allObservations

(***************************************************************************)
(* World (engine/world.js:146-349)                                         *)
(***************************************************************************)
\* the value null of a time stamp
NoTime == -1

\* the JSON value null, which has no fields to read
NullValue == [null |-> TRUE]

\* world.js:173-183: the state the constructor builds at time t
FreshState(t) ==
    [ version |-> 2, createdAt |-> t, lastUpdate |-> NoTime, observationCycles |-> 0,
      rooms |-> <<>>, corridors |-> <<>>, artifacts |-> <<>>, entities |-> <<>>,
      stats |-> <<>> ]

\* world.js:195: the memory load gives a state without one
LoadedMemory ==
    [topicHistory |-> <<>>, totalRoomHistory |-> <<>>, maxHistoryLength |-> 50]

\* world.js:193-196: if (!this.state.field) this.state.field = value
Defaulted(st, field, value) == IF Has(st, field) THEN st ELSE SetField(st, field, value)

\* World.load(filePath): file.kind is "absent" (readFileSync throws),
\* "garbage" (JSON.parse throws) or "json" with the parsed value file.data.
\* The whole body is inside try/catch, so raised is FALSE on every path.
Load(st, entities, file) ==
    IF file.kind # "json"
    THEN [state |-> st, entities |-> entities, raised |-> FALSE]
    ELSE IF file.data = NullValue
    THEN [state |-> NullValue, entities |-> entities, raised |-> FALSE]
    ELSE LET data == Defaulted(Defaulted(Defaulted(Defaulted(file.data,
                        "entities", <<>>), "events", <<>>),
                        "memory", LoadedMemory), "artifacts", <<>>)
         IN  [ state |-> data,
               entities |-> LoadEntities(entities, data.entities),
               raised |-> FALSE ]

\* world.js:573-577: the statistics buildTopology returns; the means are in
\* units of 1/SCALE, sentiment and virality being in hundredths
RECURSIVE SumVirality(_)
SumVirality(rooms) ==
    IF rooms = <<>> THEN 0 ELSE Head(rooms).virality + SumVirality(Tail(rooms))

Stats(rooms, corridors) ==
    [ totalRooms |-> Len(rooms), totalCorridors |-> Len(corridors),
      topics |-> TopicOrder(rooms, <<>>),
      avgSentiment |-> IF rooms = <<>> THEN 0
                       ELSE (SumSentiment(rooms) * (SCALE \div 100)) \div Len(rooms),
      avgVirality |-> IF rooms = <<>> THEN 0
                      ELSE (SumVirality(rooms) * (SCALE \div 100)) \div Len(rooms) ]

\* world.js:228-235: steps 2 and 3, the rooms and the inhabitants of the
\* observations
Admit(entities, roomCount, observations, t) ==
    [ newRooms |-> GenerateRooms(observations, roomCount, t),
      update |-> UpdateEntities(entities, observations, DefaultMinAppearances, t) ]

\* whether world.js:238 throws: this.state.rooms of a state that is null or
\* has no rooms
Unreadable(st) == st = NullValue \/ ~Has(st, "rooms")

\* a slip: the collapsed rooms stay in the room list
DecayedByKeepsCollapsed(st, tick, newRooms, t) ==
    [st EXCEPT
       !.rooms = RefreshExisting(IF Len(st.rooms) > 0 THEN tick.rooms ELSE st.rooms,
                                 newRooms, st.observationCycles),
       !.artifacts = @ \o [i \in 1..Len(tick.collapsed) |->
                             HarvestFragments(tick.collapsed[i], t)]]

\* world.js:238-257: step 4, the existing rooms as tick classed them, the
\* artifacts of the collapsed ones, and refreshRooms of step 5
DecayedBy(st, tick, newRooms, t) ==
    [st EXCEPT
       !.rooms = RefreshExisting(IF Len(st.rooms) > 0 THEN tick.active \o tick.decayed
                                 ELSE st.rooms,
                                 newRooms, st.observationCycles),
       !.artifacts = @ \o [i \in 1..Len(tick.collapsed) |->
                             HarvestFragments(tick.collapsed[i], t)]]

Decayed(st, newRooms, t) == DecayedBy(st, Tick(st.rooms, t), newRooms, t)

\* the random draws prune may make in this cycle
PruneDraws(st, newRooms, t) ==
    IF Unreadable(st) THEN {<<>>}
    ELSE [1..Len(ToPrune(Decayed(st, newRooms, t).rooms, st.observationCycles,
                         DefaultStaleCycles))
            -> 0..(AbsorbPool - 1)]

\* world.js:259-270: the rooms prune kept replace the list when some room
\* was pruned, the fragments join the artifacts, and the new rooms join the
\* list (step 6)
PrunedBy(before, pruneResult, newRooms) ==
    [ state |-> [before EXCEPT
                   !.rooms = (IF Len(pruneResult.pruned) > 0 THEN pruneResult.kept
                              ELSE pruneResult.rooms)
                             \o RefreshNew(newRooms, before.observationCycles),
                   !.artifacts = IF Len(pruneResult.pruned) > 0
                                 THEN @ \o pruneResult.fragments ELSE @],
      pruneResult |-> pruneResult ]

PrunedFrom(before, newRooms, rnd, t) ==
    PrunedBy(before, Prune(before, DefaultStaleCycles, rnd, t), newRooms)

\* world.js:238-270: steps 4 to 6
Pruned(st, newRooms, rnd, t) == PrunedFrom(Decayed(st, newRooms, t), newRooms, rnd, t)

\* the orders the rebuild of this cycle may draw
TopologyDraws(st, newRooms, rnd, t) ==
    IF Unreadable(st) THEN {<<>>}
    ELSE Seeds(Pruned(st, newRooms, rnd, t).state.rooms)

\* world.js:273-285: steps 7 and 8, the inhabitants as they wandered and
\* the topology as rebuilt are stored
Rebuilt(s6, wandered, topo) ==
    SetField(SetField([s6 EXCEPT !.rooms = topo.rooms, !.entities = wandered],
                      "corridors", topo.corridors),
             "stats", Stats(topo.rooms, topo.corridors))

\* world.js:289-294: step 9, the events of the cycle are detected and recorded
Tracked(s8, newRooms, pruneResult, t) ==
    SetField(s8, "events",
             Record(s8, Detect(s8, SliceLast(s8.rooms, Len(newRooms)),
                               pruneResult.pruned, pruneResult.events, t)))

\* world.js:301: this.state.observationCycles++
Counted(s9) == [s9 EXCEPT !.observationCycles = @ + 1]

\* world.js:302-315: steps 10 and 12, the memory and the metadata
Remembered(s10, t) ==
    SetField(SetField(SetField(s10, "memory", MemoryUpdate(s10, t)),
                      "lastUpdate", t),
             "version", 2)

\* world.js:273-315: steps 7 to 12 on the state steps 4 to 6 left
Completed(pruned, tracked, newRooms, picks, seeds, t) ==
    Remembered(Counted(Tracked(Rebuilt(pruned.state,
                                       Wander(tracked, pruned.state.rooms, picks, t),
                                       BuildTopology(pruned.state.rooms, seeds)),
                               newRooms, pruned.pruneResult, t)),
               t)

\* world.js:238: the cycle is rejected by the TypeError of step 4; the rooms
\* generated and the inhabitants updated by then remain
Thrown(st, admit, roomCount) ==
    [ state |-> IF st # NullValue /\ Has(st, "entities")
                THEN [st EXCEPT !.entities = Aliased(@, admit.update.entities)]
                ELSE st,
      entities |-> admit.update.entities,
      roomCount |-> roomCount + Len(admit.newRooms),
      threw |-> TRUE ]

\* the cycle ran to its end
Returned(st, admit, roomCount) ==
    [ state |-> st, entities |-> st.entities,
      roomCount |-> roomCount + Len(admit.newRooms), threw |-> FALSE ]

\* steps 4 to 12 after steps 2 and 3
CycleAfter(st, admit, roomCount, t, rnd, picks, seeds) ==
    IF Unreadable(st) THEN Thrown(st, admit, roomCount)
    ELSE Returned(Completed(Pruned(st, admit.newRooms, rnd, t), admit.update.entities,
                            admit.newRooms, picks, seeds, t),
                  admit, roomCount)

\* World.cycle after the ingestion await, the observations being non-empty:
\* steps 2 to 12, with the random draws of prune, wander and the rebuild
CycleSteps(st, entities, roomCount, observations, t, rnd, picks, seeds) ==
    CycleAfter(st, Admit(entities, roomCount, observations, t), roomCount, t,
               rnd, picks, seeds)

\* a slip: the cycle is counted even when nothing was observed
CycleCountsEmpty(st, entities, roomCount, observations, t, rnd, picks, seeds) ==
    IF observations = <<>>
    THEN [ state |-> IF Unreadable(st) THEN st
                     ELSE [st EXCEPT !.observationCycles = @ + 1],
           entities |-> entities, roomCount |-> roomCount,
           threw |-> FALSE ]
    ELSE CycleSteps(st, entities, roomCount, observations, t, rnd, picks, seeds)

\* World.cycle from world.js:221 on: the ingestion has returned observations
Cycle(st, entities, roomCount, observations, t, rnd, picks, seeds) ==
    IF observations = <<>>
    THEN [ state |-> st, entities |-> entities, roomCount |-> roomCount,
           threw |-> FALSE ]
    ELSE CycleSteps(st, entities, roomCount, observations, t, rnd, picks, seeds)

(***************************************************************************)
(* Specification Spec: a World from its construction on: load of the       *)
(* persisted state, then cycles whose ingestion queries settle one by one  *)
(***************************************************************************)
\* the most queries of a cycle
MaxQueries == 2

\* no cycle begins once this many rooms were generated
MaxGenerated == 2

\* the time that passes between cycles: two hours
CycleGap == 4

\* a persisted room: its topic, the time of its creation and the cycle of
\* its last refresh
PersistedRoom(id, topic, createdAt, lastRefreshedCycle) ==
    [ GenerateRoom(id, [topic |-> topic, sentiment |-> 0, virality |-> 0], createdAt)
        EXCEPT !.lastRefreshedCycle = lastRefreshedCycle,
               !.addedCycle = lastRefreshedCycle ]

\* a state saved by an earlier run after DefaultStaleCycles + 1 cycles: an
\* old liminal room not refreshed since cycle 1, a tech room of the last
\* cycle, the corridor between them and an inhabitant of the tech room
SavedState ==
    [ version |-> 2, createdAt |-> 0 - CycleGap, lastUpdate |-> 0,
      observationCycles |-> DefaultStaleCycles + 1,
      rooms |-> << [PersistedRoom(1, "liminal", 0 - CycleGap, 1)
                      EXCEPT !.connections = <<2>>],
                   [PersistedRoom(2, "tech", 0, DefaultStaleCycles + 1)
                      EXCEPT !.connections = <<1>>] >>,
      corridors |-> << [from |-> 1, to |-> 2, similarity |-> 700000, type |-> "cross"] >>,
      artifacts |-> <<>>,
      entities |-> << [TrackedBefore(950000) EXCEPT !.currentRoom = 2] >>,
      events |-> <<>>,
      memory |-> LoadedMemory,
      stats |-> <<>> ]

\* the record st without the fields dropped
Without(st, dropped) == [f \in DOMAIN st \ dropped |-> st[f]]

\* what the state file may hold
Files ==
    { [kind |-> "absent"], [kind |-> "garbage"],
      [kind |-> "json", data |-> NullValue],
      [kind |-> "json", data |-> <<>>],
      [kind |-> "json", data |-> Without(SavedState, {"rooms"})],
      [kind |-> "json", data |-> Without(SavedState, {"corridors"})],
      [kind |-> "json", data |-> Without(SavedState, {"entities", "events", "memory"})],
      [kind |-> "json", data |-> SavedState] }

\* how a search may settle
Outcomes ==
    { Rejected, Resolved(429, FALSE, <<>>), Resolved(200, FALSE, <<>>),
      Resolved(200, TRUE, Repeat(ObsUser, 3)), Resolved(200, TRUE, <<ObsHash>>) }

Init ==
    /\ state = FreshState(0)
    /\ entityTracker = <<>>
    /\ now = 0
    /\ calls = <<>>
    /\ roomGen = [roomCount |-> 0]
    /\ last = NoCall

\* world.load(statePath), right after the construction
LoadCall ==
    /\ last = NoCall
    /\ \E file \in Files :
         \E result \in {Load(state, entityTracker, file)} :
             /\ state' = result.state
             /\ entityTracker' = result.entities
             /\ last' = [op |-> "load", file |-> file, in |-> state,
                         raised |-> result.raised]
    /\ UNCHANGED <<now, calls, roomGen>>

\* world.cycle(queries) is called: it runs to the ingestion await.  The
\* runner (engine/run.js, src/unnamed/part_005:42) awaits each cycle, so
\* none begins while another is suspended.  The worlds of the model have
\* at most SampleSize rooms, so that every cross-topic sample is the whole
\* group.
CycleBegins ==
    /\ calls = <<>>
    /\ roomGen.roomCount < MaxGenerated
    /\ Len(RoomsOf(state)) + MaxQueries <= SampleSize
    /\ \E queries \in 1..MaxQueries :
         calls' = Append(calls, [queries |-> queries, outcomes |-> <<>>,
                                 allObservations |-> <<>>])
    /\ last' = [op |-> "begin"]
    /\ UNCHANGED <<state, entityTracker, now, roomGen>>

\* the search of the next query of a suspended cycle settles
QuerySettles ==
    /\ \E c \in 1..Len(calls), outcome \in Outcomes :
         /\ Len(calls[c].outcomes) < calls[c].queries
         /\ calls' = [calls EXCEPT ![c].outcomes = Append(@, outcome),
                                   ![c].allObservations = ObserveQuery(@, outcome)]
    /\ last' = [op |-> "query"]
    /\ UNCHANGED <<state, entityTracker, now, roomGen>>

\* the random draws wander may make in this cycle
WanderDraws(entities, roomCount, observations, t) ==
    [1..Len(Admit(entities, roomCount, observations, t).update.entities)
       -> 0..(WanderPool - 1)]

\* observe has returned: the cycle runs from world.js:221 to its end
CycleResumes ==
    \E c \in 1..Len(calls) :
      /\ Len(calls[c].outcomes) = calls[c].queries
      /\ \E observations \in {calls[c].allObservations} :
         \E newRooms \in {GenerateRooms(observations, roomGen.roomCount, now)} :
         \E rnd \in PruneDraws(state, newRooms, now) :
         \E picks \in WanderDraws(entityTracker, roomGen.roomCount, observations, now) :
         \E seeds \in TopologyDraws(state, newRooms, rnd, now) :
         \E result \in {Cycle(state, entityTracker, roomGen.roomCount,
                              observations, now, rnd, picks, seeds)} :
           /\ state' = result.state
           /\ entityTracker' = result.entities
           /\ roomGen' = [roomCount |-> result.roomCount]
           /\ last' = [ op |-> "cycle", call |-> calls[c],
                        in |-> [state |-> state, entities |-> entityTracker,
                                roomCount |-> roomGen.roomCount],
                        threw |-> result.threw ]
      /\ calls' = [k \in 1..(Len(calls) - 1) |-> IF k < c THEN calls[k] ELSE calls[k + 1]]
      /\ UNCHANGED now

\* time passes between cycles
Pass ==
    /\ calls = <<>>
    /\ now + CycleGap <= MaxNow
    /\ now' = now + CycleGap
    /\ last' = [op |-> "pass"]
    /\ UNCHANGED <<state, entityTracker, calls, roomGen>>

Next == LoadCall \/ CycleBegins \/ QuerySettles \/ CycleResumes \/ Pass

Spec == Init /\ [][Next]_vars

\* C8: a cycle whose ingestion yielded zero observations returns at once
\* and leaves the whole world as it was: the state with its rooms,
\* corridors, artifacts, inhabitants, events, memory and cycle counter, the
\* tracker and the room generator.
C8_EmptyCycleNoChange ==
    (last.op = "cycle" /\ last.call.allObservations = <<>>) =>
        /\ ~last.threw
        /\ state = last.in.state
        /\ entityTracker = last.in.entities
        /\ roomGen.roomCount = last.in.roomCount

\* a cycle all of whose queries failed, in a world that holds rooms, a
\* corridor, inhabitants, events and memory of earlier cycles
C8_Witness ==
    /\ last.op = "cycle"
    /\ last.call.queries = MaxQueries
    /\ last.call.allObservations = <<>>
    /\ Has(state, "rooms") /\ Len(state.rooms) >= 2
    /\ Has(state, "corridors") /\ state.corridors # <<>>
    /\ state.entities # <<>>
    /\ Has(state, "events") /\ state.events # <<>>
    /\ Has(state, "memory") /\ state.memory.topicHistory # <<>>
    /\ state.observationCycles > 0

\* a state file that is not there, does not parse, or parses to something
\* without the room list or the corridor list
Malformed(file) ==
    \/ file.kind # "json"
    \/ file.data = NullValue
    \/ ~Has(file.data, "rooms")
    \/ ~Has(file.data, "corridors")

\* the fields of data, and entities, events and memory empty where data
\* has none
WithDefaults(data) ==
    [ f \in DOMAIN data \cup {"entities", "events", "memory"} |->
        IF f \in DOMAIN data THEN data[f]
        ELSE IF f = "memory"
             THEN [topicHistory |-> <<>>, totalRoomHistory |-> <<>>,
                   maxHistoryLength |-> 50]
             ELSE <<>> ]

\* C9: World.load never raises; after the load of an absent, unparseable or
\* malformed state the World holds the fresh state of the constructor, and
\* a following non-empty cycle runs to its end; a well-formed state is
\* loaded with missing entities, events and memory defaulted to empty.
C9_LoadColdStart ==
    /\ last.op = "load" =>
         /\ ~last.raised
         /\ Malformed(last.file) => state = last.in /\ entityTracker = <<>>
         /\ ~Malformed(last.file) => state = WithDefaults(last.file.data)
    /\ (last.op = "cycle" /\ last.call.allObservations # <<>>) => ~last.threw

\* what load does: it never raises; an absent or unparseable file leaves
\* the fresh state; any parsed object becomes the state, with its missing
\* entities, events, memory and artifacts defaulted, whether or not it has
\* rooms and corridors; a parsed null becomes the state as it is
C9_LoadAsCoded ==
    last.op = "load" =>
        /\ ~last.raised
        /\ last.file.kind # "json" => state = last.in /\ entityTracker = <<>>
        /\ (last.file.kind = "json" /\ last.file.data = NullValue) => state = NullValue
        /\ (last.file.kind = "json" /\ last.file.data # NullValue) =>
              /\ \A f \in DOMAIN last.file.data : state[f] = last.file.data[f]
              /\ DOMAIN state =
                   DOMAIN last.file.data \cup {"entities", "events", "memory", "artifacts"}
              /\ \A f \in {"entities", "events", "artifacts"} \ DOMAIN last.file.data :
                   state[f] = <<>>

\* what the outcome of a search contributes to the observations
Contribution(outcome) ==
    IF outcome.kind = "resolved" /\ outcome.status = 200 /\ outcome.hasData
    THEN outcome.tweets ELSE <<>>

\* C10: a query that fails inside observe is isolated: the loop goes on to
\* the queries after it, the failed query contributes nothing, and observe
\* returns the observations of every other query in query order; the
\* cycle goes on with them and, the state being readable, runs to its end.
C10_QueryFailureIsolated ==
    /\ \A c \in 1..Len(calls) :
         calls[c].allObservations =
           Flatten([i \in 1..Len(calls[c].outcomes) |-> Contribution(calls[c].outcomes[i])])
    /\ last.op = "cycle" =>
         /\ Len(last.call.outcomes) = last.call.queries
         /\ last.call.allObservations =
              Flatten([i \in 1..last.call.queries |-> Contribution(last.call.outcomes[i])])
         /\ (last.call.allObservations # <<>> /\ ~Unreadable(last.in.state)) =>
              /\ ~last.threw
              /\ state.observationCycles = last.in.state.observationCycles + 1

\* a cycle whose first query delivered tweets and whose second was rejected
\* ran to its end with the observations of the first
C10_Witness ==
    /\ last.op = "cycle"
    /\ last.call.queries = 2
    /\ last.call.outcomes[1].kind = "resolved"
    /\ last.call.outcomes[1].tweets # <<>>
    /\ last.call.outcomes[2].kind = "rejected"
    /\ last.call.allObservations = last.call.outcomes[1].tweets
    /\ ~last.threw
    /\ state.observationCycles = last.in.state.observationCycles + 1

\* the event log of a state, empty when there is none
EventsOf(st) == IF st # NullValue /\ Has(st, "events") THEN st.events ELSE <<>>

\* the topic_emerged events of a log that are about the topic
EmergedIn(events, topic) ==
    {k \in 1..Len(events) : events[k].type = "topic_emerged" /\ events[k].topic = topic}

\* C18: in a cycle that admitted a room of a topic no room had before the
\* cycle, a topic_emerged event for that topic is appended to the event log.
C18_TopicEmerged ==
    (last.op = "cycle" /\ ~last.threw /\ ~Unreadable(last.in.state)) =>
        \A i \in 1..Len(state.rooms) :
            (\A j \in 1..Len(last.in.state.rooms) :
                 /\ last.in.state.rooms[j].id # state.rooms[i].id
                 /\ last.in.state.rooms[j].topic # state.rooms[i].topic)
              => Cardinality(EmergedIn(EventsOf(state), state.rooms[i].topic))
                   > Cardinality(EmergedIn(EventsOf(last.in.state), state.rooms[i].topic))

\* what holds of the cycle: no cycle appends a topic_emerged event, since
\* detect looks for the topics of the new rooms among rooms that already
\* include them
C18_NoEmergenceAsCoded ==
    (last.op = "cycle" /\ ~last.threw) =>
        \A k \in 1..Len(EventsOf(state)) : EventsOf(state)[k].type # "topic_emerged"

\* the rooms step 5 of the cycle just completed pruned, and the state prune
\* was given (world.js:238-258)
PruneInputOf(c) ==
    Decayed(c.in.state,
            GenerateRooms(c.call.allObservations, c.in.roomCount, now), now)

PrunedInCycle(c) ==
    ToPrune(PruneInputOf(c).rooms,
            IF Has(PruneInputOf(c), "observationCycles")
            THEN PruneInputOf(c).observationCycles ELSE 0,
            DefaultStaleCycles)

KeptInCycle(c) ==
    ToKeep(PruneInputOf(c).rooms,
           IF Has(PruneInputOf(c), "observationCycles")
           THEN PruneInputOf(c).observationCycles ELSE 0,
           DefaultStaleCycles)

\* whether the pruned room p of the cycle had no living neighbour and no
\* kept room of its topic
Unabsorbed(c, p) ==
    LET before == PruneInputOf(c)
        corridors == IF Has(before, "corridors") THEN before.corridors ELSE <<>>
        prunedIds == Range(Ids(PrunedInCycle(c)))
    IN  /\ Range(NeighborsOf(p.id, corridors, <<>>)) \subseteq prunedIds
        /\ SameTopicKept(KeptInCycle(c), p) = {}

\* C24: in a cycle, a pruned room with no living neighbour and no surviving
\* room of its topic has its residue dropped: no room holds a trace of it
\* and the artifact list of the world holds no artifact of it.
C24_ResidueDropped ==
    (last.op = "cycle" /\ ~last.threw /\ last.call.allObservations # <<>>) =>
        \A j \in 1..Len(PrunedInCycle(last)) :
            LET p == PrunedInCycle(last)[j]
            IN  Unabsorbed(last, p) =>
                  /\ \A i \in 1..Len(state.rooms) : TracesFrom(state.rooms[i], p.id) = {}
                  /\ \A k \in 1..Len(state.artifacts) : state.artifacts[k].sourceRoom # p.id

\* what holds of the cycle: every pruned room, absorbed or not, has exactly
\* one artifact in the artifact list, and an unabsorbed one leaves no trace
C24_ArtifactsAsCoded ==
    (last.op = "cycle" /\ ~last.threw /\ last.call.allObservations # <<>>) =>
        \A j \in 1..Len(PrunedInCycle(last)) :
            LET p == PrunedInCycle(last)[j]
            IN  /\ Cardinality({k \in 1..Len(state.artifacts) :
                                  state.artifacts[k].sourceRoom = p.id}) = 1
                /\ Unabsorbed(last, p) =>
                     \A i \in 1..Len(state.rooms) : TracesFrom(state.rooms[i], p.id) = {}

\* the cycle value refreshRooms and prune of the cycle just completed used
\* (world.js:257, prune.js:15)
CycleUsed(c) ==
    IF Has(PruneInputOf(c), "observationCycles")
    THEN PruneInputOf(c).observationCycles ELSE 0

\* the newest entry of a history
Newest(history) == history[Len(history)]

\* C33: in a non-empty cycle the snapshot appended to the two memory
\* histories carries the cycle value that refreshRooms and prune used in
\* that cycle (the counter advances only after the snapshot).
C33_SnapshotCycle ==
    (last.op = "cycle" /\ ~last.threw /\ last.call.allObservations # <<>>) =>
        /\ Newest(state.memory.topicHistory).cycle = CycleUsed(last)
        /\ Newest(state.memory.totalRoomHistory).cycle = CycleUsed(last)

\* what holds of the cycle: the counter advances before the snapshot, which
\* carries the value the cycle ends with, one more than the value the rooms
\* admitted in the cycle were marked with
C33_SnapshotAsCoded ==
    (last.op = "cycle" /\ ~last.threw /\ last.call.allObservations # <<>>) =>
        /\ state.observationCycles = CycleUsed(last) + 1
        /\ Newest(state.memory.topicHistory).cycle = state.observationCycles
        /\ Newest(state.memory.totalRoomHistory).cycle = state.observationCycles
        /\ \A i \in 1..Len(state.rooms) :
             state.rooms[i].lastRefreshedCycle < Newest(state.memory.topicHistory).cycle

\* the corridors of the list that end at the room of the id
IncidentTo(corridors, id) ==
    {k \in 1..Len(corridors) : corridors[k].from = id \/ corridors[k].to = id}

\* the endpoint of the corridor that is not the room of the id
OtherEnd(corridor, id) == IF corridor.from = id THEN corridor.to ELSE corridor.from

\* C38: at the end of every non-empty cycle both endpoints of every
\* corridor are ids of rooms of the room list, and each room's connection
\* list holds exactly the other endpoints of the corridors incident to it,
\* once each; connections left over from the previous cycle are gone.
C38_EdgesAgree ==
    (last.op = "cycle" /\ ~last.threw /\ last.call.allObservations # <<>>) =>
        /\ \A k \in 1..Len(state.corridors) :
             /\ state.corridors[k].from \in Range(Ids(state.rooms))
             /\ state.corridors[k].to \in Range(Ids(state.rooms))
        /\ \A i \in 1..Len(state.rooms) :
             LET room == state.rooms[i]
                 incident == IncidentTo(state.corridors, room.id)
             IN  /\ Range(room.connections) =
                      {OtherEnd(state.corridors[k], room.id) : k \in incident}
                 /\ Len(room.connections) = Cardinality(incident)

\* a cycle pruned a room that a kept room was connected to, and the kept
\* room ends the cycle connected to another room by a new corridor
C38_Witness ==
    /\ last.op = "cycle" /\ ~last.threw /\ last.call.allObservations # <<>>
    /\ \E i \in 1..Len(state.rooms), j \in 1..Len(last.in.state.rooms) :
         /\ last.in.state.rooms[j].id = state.rooms[i].id
         /\ \E gone \in Range(last.in.state.rooms[j].connections) :
              /\ gone \notin Range(Ids(state.rooms))
              /\ gone \notin Range(state.rooms[i].connections)
         /\ state.rooms[i].connections # <<>>
    /\ state.corridors # <<>>

(***************************************************************************)
(* Specification SpecPipeline: the entropy scores of the rooms through     *)
(* the decay and prune steps of successive cycles (world.js:238-270 and    *)
(* :301), as the clock advances.  The steps of the cycle that leave the    *)
(* scores alone are not taken.                                             *)
(***************************************************************************)
\* the most cycles of a behaviour
MaxCycles == 3

\* the observations of a cycle: of a topic no old room has, or of the
\* topic of the old room, which refreshes it
PipelineBatches == { <<ObsQuiet>>, <<ObsHash>> }

\* a state saved after DefaultStaleCycles + 1 cycles with a liminal room
\* created now and not refreshed since cycle 1
InitPipeline ==
    /\ state = [ observationCycles |-> DefaultStaleCycles + 1,
                 rooms |-> <<PersistedRoom(1, "liminal", 0, 1)>>,
                 corridors |-> <<>>, artifacts |-> <<>> ]
    /\ entityTracker = <<>>
    /\ now = 0
    /\ calls = <<>>
    /\ roomGen = [roomCount |-> 0]
    /\ last = NoCall

\* steps 2, 4, 5, 6 and the counter of step 10 of one cycle; ticked holds
\* the rooms as step 4 left them
PipelineCycle ==
    /\ roomGen.roomCount < MaxCycles
    /\ \E observations \in PipelineBatches :
       \E newRooms \in {GenerateRooms(observations, roomGen.roomCount, now)} :
       \E rnd \in PruneDraws(state, newRooms, now) :
       \E pruned \in {Pruned(state, newRooms, rnd, now)} :
         /\ state' = Counted(pruned.state)
         /\ roomGen' = [roomCount |-> roomGen.roomCount + Len(newRooms)]
         /\ last' = [ op |-> "pipeline", in |-> state,
                      ticked |-> Tick(state.rooms, now).rooms,
                      tickedBefore |-> IF last.op = "pipeline" THEN last.ticked ELSE <<>> ]
    /\ UNCHANGED <<entityTracker, now, calls>>

NextPipeline == Advance \/ PipelineCycle

SpecPipeline == InitPipeline /\ [][NextPipeline]_vars

\* C16: over cycles with a non-decreasing clock and fixed half-lives, the
\* score stored on a room never decreases from one step to the next: the
\* tick writes no less than the room held when the cycle began (the score
\* the previous cycle left, boosted by prune or not), and prune leaves no
\* less than the tick wrote.
C16_ScoreNeverDecreases ==
    last.op = "pipeline" =>
        \A i \in 1..Len(last.in.rooms) :
            /\ last.ticked[i].entropy.score >= last.in.rooms[i].entropy.score
            /\ \A j \in 1..Len(state.rooms) :
                 state.rooms[j].id = last.in.rooms[i].id =>
                   state.rooms[j].entropy.score >= last.ticked[i].entropy.score

\* what holds of the pipeline: prune leaves no less than the tick wrote,
\* and the tick writes no less than the tick of the cycle before
C16_ScoreAsCoded ==
    last.op = "pipeline" =>
        /\ \A i \in 1..Len(last.in.rooms) : \A j \in 1..Len(state.rooms) :
             state.rooms[j].id = last.in.rooms[i].id =>
               state.rooms[j].entropy.score >= last.ticked[i].entropy.score
        /\ \A i \in 1..Len(last.ticked) : \A j \in 1..Len(last.tickedBefore) :
             last.ticked[i].id = last.tickedBefore[j].id =>
               last.ticked[i].entropy.score >= last.tickedBefore[j].entropy.score

(***************************************************************************)
(* Specification SpecWander: the inhabitants through the steps of a cycle  *)
(* up to the wandering (world.js:228-274), on a saved world whose room     *)
(* may have collapsed since                                                *)
(***************************************************************************)
\* the most cycles of a behaviour
MaxWanderCycles == 2

\* the elapsed time at which a room of the shortest half-life has collapsed
CollapseAge == (CollapseQ * HalfLife(0)) \div 4 + 1

\* the observations of a cycle: of a topic no inhabitant has, or of the
\* topic of the inhabitant
WanderBatches == { <<ObsQuiet>>, <<ObsUser>> }

\* a saved state with one tech room, created just now or long ago, and the
\* inhabitant of topic tech, in that room or in none
InitWander ==
    /\ \E createdAt \in {0, 0 - CollapseAge} :
         state = [ observationCycles |-> DefaultStaleCycles + 1,
                   rooms |-> <<PersistedRoom(1, "tech", createdAt, DefaultStaleCycles + 1)>>,
                   corridors |-> <<>>, artifacts |-> <<>> ]
    /\ \E room \in {0, 1} :
         entityTracker = <<[TrackedBefore(950000) EXCEPT !.currentRoom = room]>>
    /\ now = 0
    /\ calls = <<>>
    /\ roomGen = [roomCount |-> 0]
    /\ last = NoCall

\* steps 2 to 7 and the counter of step 10 of one cycle; in holds the
\* inhabitants and rooms holds the rooms that wander was called with
WanderCycle ==
    /\ roomGen.roomCount < MaxWanderCycles
    /\ \E observations \in WanderBatches :
       \E admit \in {Admit(entityTracker, roomGen.roomCount, observations, now)} :
       \E rnd \in PruneDraws(state, admit.newRooms, now) :
       \E pruned \in {Pruned(state, admit.newRooms, rnd, now)} :
       \E picks \in WanderDraws(entityTracker, roomGen.roomCount, observations, now) :
         /\ state' = Counted(pruned.state)
         /\ entityTracker' = Wander(admit.update.entities, pruned.state.rooms, picks, now)
         /\ roomGen' = [roomCount |-> roomGen.roomCount + Len(admit.newRooms)]
         /\ last' = [ op |-> "wander", in |-> admit.update.entities,
                      rooms |-> pruned.state.rooms ]
    /\ UNCHANGED <<now, calls>>

NextWander == Advance \/ WanderCycle

SpecWander == InitWander /\ [][NextWander]_vars

\* the rooms of the list whose topic is one of the inhabitant's
Matching(entity, rooms) ==
    {k \in 1..Len(rooms) : rooms[k].topic \in Range(entity.topics)}

\* C19: after wander(rooms) an inhabitant with no room of its topics is in
\* no room (current room null); every inhabitant's current room is null or
\* the id of a room of the list that has one of its topics; no inhabitant
\* is removed.
C19_WanderAssignment ==
    last.op = "wander" =>
        /\ Len(entityTracker) = Len(last.in)
        /\ \A i \in 1..Len(entityTracker) :
             /\ entityTracker[i].id = last.in[i].id
             /\ Matching(entityTracker[i], last.rooms) = {}
                  => entityTracker[i].currentRoom = 0
             /\ \/ entityTracker[i].currentRoom = 0
                \/ \E k \in Matching(entityTracker[i], last.rooms) :
                     last.rooms[k].id = entityTracker[i].currentRoom

\* what holds of wander: an inhabitant with a room of its topics is in one
\* of them, any other keeps the current room it had, and none is removed
C19_WanderAsCoded ==
    last.op = "wander" =>
        /\ Len(entityTracker) = Len(last.in)
        /\ \A i \in 1..Len(entityTracker) :
             /\ entityTracker[i].id = last.in[i].id
             /\ IF Matching(entityTracker[i], last.rooms) = {}
                THEN entityTracker[i].currentRoom = last.in[i].currentRoom
                ELSE \E k \in Matching(entityTracker[i], last.rooms) :
                       last.rooms[k].id = entityTracker[i].currentRoom

(***************************************************************************)
(* Specification SpecRoam: EntityTracker.wander on drawn rooms and         *)
(* inhabitants                                                             *)
(***************************************************************************)
\* the most rooms wander is given
MaxRoamRooms == 4

\* the entropy scores of the drawn rooms by position: all equal, falling
\* (the last below zero, as a room dated ahead of the clock has it), or
\* alternating
RoamScores ==
    { [i \in 1..MaxRoamRooms |-> 0],
      [i \in 1..MaxRoamRooms |-> 500000 - 200000 * (i - 1)],
      [i \in 1..MaxRoamRooms |-> IF i % 2 = 1 THEN 300000 ELSE 0] }

RoamRoom(id, topic, score) ==
    [ GenerateRoom(id, [topic |-> topic, sentiment |-> 0, virality |-> 0], 0)
      EXCEPT !.entropy.score = score ]

\* the transitions an inhabitant already holds, the oldest first
OldMoves(held) ==
    [k \in 1..held |-> [from |-> 0 - k - 1, to |-> 0 - k, timestamp |-> 0 - 1]]

\* an inhabitant with its topics, its current room (0: none yet; an id past
\* the list: a room that is gone) and its movement history
RoamEntity(topics, currentRoom, held) ==
    [ TrackedBefore(500000) EXCEPT !.topics = topics, !.currentRoom = currentRoom,
                                   !.history = OldMoves(held) ]

\* a second inhabitant, of the tag '#ai', that has no room yet
RoamSecond ==
    [ TrackedBefore(500000) EXCEPT !.id = EntityId(<<"#", "a", "i">>),
                                   !.name = <<"#", "a", "i">>, !.type = "concept",
                                   !.topics = <<"liminal">> ]

InitRoam ==
    /\ \E n \in 1..MaxRoamRooms :
         \E topic \in [1..n -> Topics], score \in RoamScores :
           state = [ observationCycles |-> 1,
                     rooms |-> [i \in 1..n |-> RoamRoom(i, topic[i], score[i])],
                     corridors |-> <<>> ]
    /\ \E topics \in {<<"tech">>, <<"liminal">>, <<"tech", "liminal">>},
          currentRoom \in 0..(Len(state.rooms) + 1),
          held \in {0, MovementCap - 1, MovementCap} :
         entityTracker \in { <<RoamEntity(topics, currentRoom, held)>>,
                             <<RoamEntity(topics, currentRoom, held), RoamSecond>> }
    /\ now = 0
    /\ calls = <<>>
    /\ roomGen = [roomCount |-> 0]
    /\ last = NoCall

\* one call entityTracker.wander(rooms); the inhabitants are mutated in place
WanderCall ==
    /\ last.op = "init"
    /\ \E picks \in [1..Len(entityTracker) -> 0..(WanderPool - 1)] :
         /\ entityTracker' = Wander(entityTracker, state.rooms, picks, now)
         /\ last' = [ op |-> "roam", in |-> entityTracker, rooms |-> state.rooms,
                      picks |-> picks ]
    /\ UNCHANGED <<state, now, calls, roomGen>>

NextRoam == WanderCall

SpecRoam == InitRoam /\ [][NextRoam]_vars

\* the rooms of the list that match the inhabitant and have a strictly
\* lower entropy score than room k
LowerThan(entity, rooms, k) ==
    {m \in Matching(entity, rooms) : rooms[m].entropy.score < rooms[k].entropy.score}

\* C28: the room wander assigns to an inhabitant has one of the
\* inhabitant's topics and is one of the (up to) 3 matching rooms of lowest
\* entropy: fewer than 3 matching rooms have a strictly lower score; the
\* room list is neither reordered nor modified.
C28_WanderPicksLowest ==
    last.op = "roam" =>
        /\ state.rooms = last.rooms
        /\ \A i \in 1..Len(entityTracker) :
             Matching(last.in[i], last.rooms) # {} =>
                \E k \in Matching(last.in[i], last.rooms) :
                    /\ last.rooms[k].id = entityTracker[i].currentRoom
                    /\ Cardinality(LowerThan(last.in[i], last.rooms, k)) < WanderPool

\* four matching rooms of falling score, listed highest first: the
\* inhabitant is in the third lowest, and the list is as it was
C28_Witness ==
    /\ last.op = "roam"
    /\ Len(last.rooms) = 4
    /\ Matching(last.in[1], last.rooms) = 1..4
    /\ \A k \in 1..3 : last.rooms[k].entropy.score > last.rooms[k + 1].entropy.score
    /\ entityTracker[1].currentRoom = last.rooms[2].id
    /\ state.rooms = last.rooms

\* the movement history wander leaves when a transition from the room
\* before to the room after is appended to the history before
WithMove(before, after, t) ==
    SliceLast(Append(before.history,
                     [from |-> before.currentRoom, to |-> after.currentRoom,
                      timestamp |-> t]),
              MovementCap)

\* C29: whenever wander changes an inhabitant's room from its previous
\* value, another room or none, exactly one transition is appended to its
\* movement history, and none when the room does not change; the history
\* never holds more than 20 transitions, the oldest being evicted first.
C29_MovementHistory ==
    last.op = "roam" =>
        \A i \in 1..Len(entityTracker) :
            /\ Len(entityTracker[i].history) <= MovementCap
            /\ entityTracker[i].history =
                 IF entityTracker[i].currentRoom # last.in[i].currentRoom
                 THEN WithMove(last.in[i], entityTracker[i], now)
                 ELSE last.in[i].history

\* what holds of wander: a transition is appended only when the inhabitant
\* had a room before; the first assignment of a room leaves no record
C29_HistoryAsCoded ==
    last.op = "roam" =>
        \A i \in 1..Len(entityTracker) :
            /\ Len(entityTracker[i].history) <= MovementCap
            /\ entityTracker[i].history =
                 IF /\ entityTracker[i].currentRoom # last.in[i].currentRoom
                    /\ last.in[i].currentRoom # 0
                 THEN WithMove(last.in[i], entityTracker[i], now)
                 ELSE last.in[i].history

(***************************************************************************)
(* Specification SpecErode: a room whose topic is never observed again,    *)
(* through the decay and prune steps of an unending run of cycles          *)
(* (world.js:238-270 and :301) while the clock advances.  The cycles are   *)
(* run again and again (engine/run.js is started per cycle by a scheduler) *)
(* and the clock never stops, which the fairness conditions state.         *)
(***************************************************************************)
\* the clock reading from which on the model lets cycles follow each other
\* without the clock moving on
ErodeHorizon == 3

\* the cycles of a behaviour: before the horizon one per clock reading, then
\* as many as make a room stale, and two more
ErodeCycles == Max(ErodeHorizon, DefaultStaleCycles) + 2

\* the observations of a cycle: never of the topic liminal
ErodeBatches == { <<ObsQuiet>>, <<ObsUser>> }

\* the room that is watched: a liminal room created at time 0 in cycle 1
WatchedRoom == PersistedRoom(1, "liminal", 0, 1)

\* a world that admitted a liminal room in its first cycle, right after that
\* cycle or some cycles later within the same half hour
InitErode ==
    /\ \E cycles \in {1, DefaultStaleCycles} :
         state = [ observationCycles |-> cycles,
                   rooms |-> <<WatchedRoom>>,
                   corridors |-> <<>>, artifacts |-> <<>> ]
    /\ entityTracker = <<>>
    /\ now = 0
    /\ calls = <<>>
    /\ roomGen = [roomCount |-> 0]
    /\ last = NoCall

\* the clock moves on by half an hour, or by more than the 54 half-lives
\* after which a score is written as 1
Elapse ==
    /\ now < ErodeHorizon
    /\ \E d \in {1, CollapseAge} : now' = now + d
    /\ last' = [op |-> "elapse"]
    /\ UNCHANGED <<state, entityTracker, calls, roomGen>>

\* steps 2, 4, 5, 6 and the counter of step 10 of one non-empty cycle
ErodeCycle ==
    /\ roomGen.roomCount < ErodeCycles
    /\ now < ErodeHorizon => last.op # "erode"
    /\ \E observations \in ErodeBatches :
       \E newRooms \in {GenerateRooms(observations, roomGen.roomCount, now)} :
       \E rnd \in PruneDraws(state, newRooms, now) :
       \E pruned \in {Pruned(state, newRooms, rnd, now)} :
         /\ state' = Counted(pruned.state)
         /\ roomGen' = [roomCount |-> roomGen.roomCount + Len(newRooms)]
         /\ last' = [op |-> "erode"]
    /\ UNCHANGED <<entityTracker, now, calls>>

NextErode == Elapse \/ ErodeCycle

\* ErodeCycle as the room counter alone shows it: a cycle is due, and the
\* one room of its one observation is counted.  Every step of ErodeCycle is
\* such a step and no step of Elapse is, so fairness on it is fairness on
\* ErodeCycle.
CycleDue ==
    /\ roomGen.roomCount < ErodeCycles
    /\ now < ErodeHorizon => last.op # "erode"
    /\ roomGen' = [roomCount |-> roomGen.roomCount + 1]

\* the clock keeps advancing and a cycle that is due is run
SpecErode ==
    InitErode /\ [][NextErode]_vars /\ WF_vars(Elapse) /\ WF_roomGen(CycleDue)

\* the watched room is no longer among the rooms
Removed == \A i \in 1..Len(state.rooms) : state.rooms[i].id # WatchedRoom.id

\* C21: under an unending sequence of non-empty cycles with an advancing
\* clock, a room whose topic never again appears among the newly admitted
\* rooms is eventually removed (collapsed by decay or pruned), and once
\* removed it never reappears.
C21_EventuallyRemoved == <>Removed /\ [](Removed => []Removed)

\* the watched room was pruned as stale, its artifact is kept, and cycles
\* went on after that
C21_Witness ==
    /\ Removed
    /\ \E k \in 1..Len(state.artifacts) :
         /\ state.artifacts[k].sourceRoom = WatchedRoom.id
         /\ state.artifacts[k].kind = "pruned"
         /\ state.artifacts[k].cycle < state.observationCycles - 1
    /\ Len(state.rooms) >= 2

(***************************************************************************)
(* Specification SpecCollapse: steps 4 to 6 of cycles on saved rooms of    *)
(* different ages, as time passes: a room may be active, decayed or        *)
(* collapsed when a cycle ticks it                                         *)
(***************************************************************************)
\* the most cycles of a behaviour
MaxCollapseCycles == 2

\* the creation times of the saved rooms: just now, two half-lives ago
\* (score 0.75), and long enough ago to have collapsed
SavedAges == {0, 0 - CycleGap, 0 - CollapseAge}

InitCollapse ==
    /\ \E first \in SavedAges, second \in SavedAges :
         state = [ observationCycles |-> DefaultStaleCycles + 1,
                   rooms |-> << PersistedRoom(1, "tech", first, DefaultStaleCycles + 1),
                                PersistedRoom(2, "liminal", second, DefaultStaleCycles + 1) >>,
                   corridors |-> <<>>, artifacts |-> <<>> ]
    /\ entityTracker = <<>>
    /\ now = 0
    /\ calls = <<>>
    /\ roomGen = [roomCount |-> 0]
    /\ last = NoCall

\* the clock of the model stops after this time
CollapseHorizon == 2 * CycleGap

\* time passes until the next cycle: two hours, or two hours less than a
\* room of the shortest half-life takes to collapse
Ages ==
    /\ now < CollapseHorizon
    /\ \E d \in {CycleGap, CollapseAge - CycleGap} : now' = now + d
    /\ UNCHANGED <<state, entityTracker, calls, roomGen, last>>

\* steps 2, 4, 5, 6 and the counter of step 10 of one non-empty cycle
CollapseCycle ==
    /\ roomGen.roomCount < MaxCollapseCycles
    /\ \E observations \in ErodeBatches :
       \E newRooms \in {GenerateRooms(observations, roomGen.roomCount, now)} :
       \E rnd \in PruneDraws(state, newRooms, now) :
       \E pruned \in {Pruned(state, newRooms, rnd, now)} :
         /\ state' = Counted(pruned.state)
         /\ roomGen' = [roomCount |-> roomGen.roomCount + Len(newRooms)]
         /\ last' = [op |-> "collapse", in |-> state, at |-> now]
    /\ UNCHANGED <<entityTracker, now, calls>>

NextCollapse == Ages \/ CollapseCycle

SpecCollapse == InitCollapse /\ [][NextCollapse]_vars

\* how many rooms of the list have the id
CountId(rooms, id) == Cardinality({i \in 1..Len(rooms) : rooms[i].id = id})

\* the artifacts the cycle just completed appended
Appended == SubSeq(state.artifacts, Len(last.in.artifacts) + 1, Len(state.artifacts))

\* C34: in a cycle, tick's three result lists partition the existing rooms
\* (score >= 1 collapsed, score in [0.7, 1) decayed, otherwise active);
\* every collapsed room is removed from the room list and exactly one
\* artifact carrying its id is appended to the artifact list; no cycle
\* removes, reorders or modifies an artifact recorded earlier.
C34_CollapseArtifacts ==
    last.op = "collapse" =>
        LET tick == Tick(last.in.rooms, last.at)
        IN  /\ \A i \in 1..Len(last.in.rooms) :
                 LET room == last.in.rooms[i]
                     score == DecayScore(room, last.at)
                 IN  /\ CountId(tick.collapsed, room.id) = IF score >= SCALE THEN 1 ELSE 0
                     /\ CountId(tick.decayed, room.id) =
                          IF score >= 700000 /\ score < SCALE THEN 1 ELSE 0
                     /\ CountId(tick.active, room.id) = IF score < 700000 THEN 1 ELSE 0
                     /\ score >= SCALE =>
                          /\ CountId(state.rooms, room.id) = 0
                          /\ Cardinality({k \in 1..Len(Appended) :
                                            Appended[k].sourceRoom = room.id}) = 1
            /\ Len(tick.collapsed) + Len(tick.decayed) + Len(tick.active) = Len(last.in.rooms)
            /\ Len(state.artifacts) >= Len(last.in.artifacts)
            /\ SubSeq(state.artifacts, 1, Len(last.in.artifacts)) = last.in.artifacts

\* a cycle found a room collapsed and a room decayed but not collapsed, and
\* appended the artifact of the collapsed one behind an artifact of an
\* earlier cycle
C34_Witness ==
    /\ last.op = "collapse"
    /\ last.in.artifacts # <<>>
    /\ Tick(last.in.rooms, last.at).collapsed # <<>>
    /\ Tick(last.in.rooms, last.at).decayed # <<>>
    /\ Len(state.artifacts) > Len(last.in.artifacts)

(***************************************************************************)
(* Specification SpecEvents: EventTracker.detect and EventTracker.record   *)
(* on drawn room lists: the rooms of the state, of which the last ones are *)
(* this cycle's new rooms, and the rooms pruned in this cycle              *)
(***************************************************************************)
\* the most rooms of the state, and the most pruned rooms, of a detect call
MaxDetectRooms == 2

\* the room lists of at most n rooms over the topics, with ids from first on
DetectRooms(first, n) ==
    UNION { { [i \in 1..k |-> PruneRoom(first + i - 1, topics[i], <<900000, 1>>)] :
              topics \in [1..k -> Topics] } : k \in 0..n }

\* prune.js:104-110: the event prune leaves for a pruned room
DetectPruneEvents(prunedRooms, t) ==
    [i \in 1..Len(prunedRooms) |->
       Event(t, "room_pruned", prunedRooms[i].topic, <<prunedRooms[i].id>>, <<>>)]

InitEvents ==
    /\ \E rooms \in DetectRooms(1, MaxDetectRooms),
          entities \in {<<>>, <<TrackedBefore(SCALE)>>} :
         state = [ rooms |-> rooms, entities |-> entities, events |-> <<>> ]
    /\ entityTracker = <<>>
    /\ now = 0
    /\ calls = <<>>
    /\ roomGen = [roomCount |-> 0]
    /\ last = NoCall

\* world.js:288-293: EventTracker.detect on the state and this cycle's new
\* and pruned rooms, then EventTracker.record of what it returned
DetectCall ==
    /\ last.op = "init"
    /\ \E admitted \in 0..Min(1, Len(state.rooms)),
          prunedRooms \in DetectRooms(MaxDetectRooms + 1, MaxDetectRooms) :
         \E newEvents \in { Detect(state, SliceLast(state.rooms, admitted), prunedRooms,
                                   DetectPruneEvents(prunedRooms, now), now) } :
            /\ state' = SetField(state, "events", Record(state, newEvents))
            /\ last' = [ op |-> "detect", in |-> state,
                         newRooms |-> SliceLast(state.rooms, admitted),
                         prunedRooms |-> prunedRooms, out |-> newEvents ]
    /\ UNCHANGED <<entityTracker, now, calls, roomGen>>

NextEvents == DetectCall

SpecEvents == InitEvents /\ [][NextEvents]_vars

\* the topic-death events of an event list that name the topic
DeathsOf(events, topic) ==
    { i \in 1..Len(events) : events[i].type = "topic_death" /\ events[i].topic = topic }

\* some room of the list has the topic
HasTopic(rooms, topic) == \E i \in 1..Len(rooms) : rooms[i].topic = topic

\* C32: EventTracker.detect emits exactly one topic-death event for each
\* topic that has at least one room among this cycle's pruned rooms and no
\* room in the current room list (which holds this cycle's new rooms), and
\* none for any other topic.
C32_TopicDeath ==
    last.op = "detect" =>
        \A topic \in Topics :
            Cardinality(DeathsOf(last.out, topic)) =
                IF /\ HasTopic(last.prunedRooms, topic)
                   /\ ~HasTopic(last.in.rooms, topic)
                THEN 1 ELSE 0

\* two rooms of one topic were pruned, no room of the topic is left, a room
\* of another topic was admitted in the same cycle, and the timeline holds
\* one death of the topic
C32_Witness ==
    /\ last.op = "detect"
    /\ \E topic \in Topics :
         /\ Cardinality({i \in 1..Len(last.prunedRooms) :
                           last.prunedRooms[i].topic = topic}) = 2
         /\ ~HasTopic(last.in.rooms, topic)
         /\ Len(last.newRooms) = 1
         /\ Cardinality(DeathsOf(state.events, topic)) = 1

(***************************************************************************)
(* Specification SpecOverlap: World.cycle called again on the same World   *)
(* while an earlier call is suspended at its ingestion await               *)
(***************************************************************************)
\* the most calls of World.cycle of a behaviour
MaxOverlap == 2

\* how the one search of a call may settle: without data, with three
\* tweets of the topic tech, with one of the topic liminal
OverlapOutcomes ==
    { Resolved(200, FALSE, <<>>), Resolved(200, TRUE, Repeat(ObsUser, 3)),
      Resolved(200, TRUE, <<ObsHash>>) }

\* the state, the tracker and the room counter of a World
WorldOf(st, entities, roomCount) ==
    [state |-> st, entities |-> entities, roomCount |-> roomCount]

\* a World just constructed, or one that loaded the saved state
InitOverlap ==
    /\ \E loaded \in { Load(FreshState(0), <<>>, [kind |-> "absent"]),
                       Load(FreshState(0), <<>>, [kind |-> "json", data |-> SavedState]) } :
         /\ state = loaded.state
         /\ entityTracker = loaded.entities
         /\ last = [ op |-> "init", begun |-> 0, observations |-> <<>>, done |-> <<>>,
                     start |-> WorldOf(loaded.state, loaded.entities, 0) ]
    /\ now = 0
    /\ calls = <<>>
    /\ roomGen = [roomCount |-> 0]

\* world.cycle(queries) is called with one query and runs to the ingestion
\* await, whether or not an earlier call is suspended there
OverlapBegins ==
    /\ last.begun < MaxOverlap
    /\ calls' = Append(calls, [ number |-> last.begun + 1, queries |-> 1,
                                outcomes |-> <<>>, allObservations |-> <<>> ])
    /\ last' = [last EXCEPT !.op = "begin", !.begun = @ + 1]
    /\ UNCHANGED <<state, entityTracker, now, roomGen>>

\* the search of a suspended call settles and observe returns; observations
\* is the field of the observer that observe assigns (part_003:205)
OverlapSettles ==
    /\ \E c \in 1..Len(calls), outcome \in OverlapOutcomes :
         /\ Len(calls[c].outcomes) < calls[c].queries
         /\ calls' = [calls EXCEPT ![c].outcomes = Append(@, outcome),
                                   ![c].allObservations = ObserveQuery(@, outcome)]
         /\ last' = [last EXCEPT !.op = "query",
                                 !.observations = ObserveQuery(calls[c].allObservations, outcome)]
    /\ UNCHANGED <<state, entityTracker, now, roomGen>>

\* a slip: the cycle reads the field of the observer instead of the value
\* observe returned to it
ResumedWithField(call, field) == field

\* world.js:220: the observations the await yields to the call are those its
\* own observe returned
ResumedWith(call, field) == call.allObservations

\* observe has returned to a call: it runs from world.js:221 to its end
OverlapResumes ==
    \E c \in 1..Len(calls) :
      /\ Len(calls[c].outcomes) = calls[c].queries
      /\ \E observations \in {ResumedWith(calls[c], last.observations)} :
         \E newRooms \in {GenerateRooms(observations, roomGen.roomCount, now)} :
         \E rnd \in PruneDraws(state, newRooms, now) :
         \E picks \in WanderDraws(entityTracker, roomGen.roomCount, observations, now) :
         \E seeds \in TopologyDraws(state, newRooms, rnd, now) :
         \E result \in {Cycle(state, entityTracker, roomGen.roomCount,
                              observations, now, rnd, picks, seeds)} :
           /\ state' = result.state
           /\ entityTracker' = result.entities
           /\ roomGen' = [roomCount |-> result.roomCount]
           /\ last' = [last EXCEPT
                         !.op = "cycle",
                         !.done = Append(@, [ call |-> calls[c],
                                              suspended |-> Len(calls) - 1,
                                              in |-> WorldOf(state, entityTracker,
                                                             roomGen.roomCount),
                                              out |-> WorldOf(result.state, result.entities,
                                                              result.roomCount) ])]
      /\ calls' = [k \in 1..(Len(calls) - 1) |-> IF k < c THEN calls[k] ELSE calls[k + 1]]
      /\ UNCHANGED now

NextOverlap == OverlapBegins \/ OverlapSettles \/ OverlapResumes

SpecOverlap == InitOverlap /\ [][NextOverlap]_vars

\* what observe returns for the outcomes of its searches
RECURSIVE ObservedBy(_, _)
ObservedBy(outcomes, acc) ==
    IF outcomes = <<>> THEN acc
    ELSE ObservedBy(Tail(outcomes), ObserveQuery(acc, Head(outcomes)))

\* whether one whole cycle on the World before, with the observations of
\* the outcomes, can leave the World after
RunsAlone(before, outcomes, after, t) ==
    \E observations \in {ObservedBy(outcomes, <<>>)} :
    \E newRooms \in {GenerateRooms(observations, before.roomCount, t)} :
    \E rnd \in PruneDraws(before.state, newRooms, t) :
    \E picks \in WanderDraws(before.entities, before.roomCount, observations, t) :
    \E seeds \in TopologyDraws(before.state, newRooms, rnd, t) :
    \E result \in {Cycle(before.state, before.entities, before.roomCount,
                         observations, t, rnd, picks, seeds)} :
        after = WorldOf(result.state, result.entities, result.roomCount)

\* C37: when calls of World.cycle on one World overlap, the World they
\* leave is the one left by running the cycles one after the other in the
\* order in which they resumed: each resumed call runs one whole cycle with
\* its own observations on the World the one before it left, and nothing
\* else changes the World.
C37_Serial ==
    /\ \A k \in 1..Len(last.done) :
         /\ last.done[k].in = IF k = 1 THEN last.start ELSE last.done[k - 1].out
         /\ RunsAlone(last.done[k].in, last.done[k].call.outcomes, last.done[k].out, now)
    /\ WorldOf(state, entityTracker, roomGen.roomCount) =
         IF last.done = <<>> THEN last.start ELSE last.done[Len(last.done)].out

\* two calls were suspended together, the one called second resumed first,
\* and both brought observations, of different topics
C37_Witness ==
    /\ Len(last.done) = 2
    /\ last.done[1].suspended = 1
    /\ last.done[1].call.number = 2
    /\ last.done[1].call.allObservations # <<>>
    /\ last.done[2].call.allObservations # <<>>
    /\ last.done[1].call.allObservations # last.done[2].call.allObservations
    /\ last.done[2].out # last.done[1].out

(***************************************************************************)
(* Specification SpecRefresh: steps 4 to 6 of cycles that bring new rooms  *)
(* of the topic of a saved room or of another topic, as time passes; log   *)
(* holds the cycle values at which a topic had new rooms                   *)
(***************************************************************************)
\* the most cycles of a behaviour
MaxRefreshCycles == 4

\* the cycle of the last refresh of the saved room: long ago, so that the
\* room is stale in the first cycle, or lately, so that it is stale in the
\* fourth
LastRefreshes == {1, DefaultStaleCycles - 1}

InitRefresh ==
    /\ \E refreshed \in LastRefreshes :
         /\ state = [ observationCycles |-> DefaultStaleCycles + 1,
                      rooms |-> <<PersistedRoom(1, "liminal", 0, refreshed)>>,
                      corridors |-> <<>>, artifacts |-> <<>> ]
         /\ last = [op |-> "init", log |-> {<<refreshed, "liminal">>}]
    /\ entityTracker = <<>>
    /\ now = 0
    /\ calls = <<>>
    /\ roomGen = [roomCount |-> 0]

\* steps 2, 4, 5, 6 and the counter of step 10 of one non-empty cycle
RefreshCycle ==
    /\ roomGen.roomCount < MaxRefreshCycles
    /\ \E observations \in PipelineBatches :
       \E newRooms \in {GenerateRooms(observations, roomGen.roomCount, now)} :
       \E rnd \in PruneDraws(state, newRooms, now) :
       \E pruned \in {Pruned(state, newRooms, rnd, now)} :
         /\ state' = Counted(pruned.state)
         /\ roomGen' = [roomCount |-> roomGen.roomCount + Len(newRooms)]
         /\ last' = [ op |-> "refresh", in |-> state,
                      ticked |-> Tick(state.rooms, now).rooms,
                      newRooms |-> newRooms,
                      pruned |-> pruned.pruneResult.pruned,
                      log |-> last.log \cup
                                { <<state.observationCycles, newRooms[i].topic>> :
                                    i \in 1..Len(newRooms) } ]
    /\ UNCHANGED <<entityTracker, now, calls>>

NextRefresh == Advance \/ RefreshCycle

SpecRefresh == InitRefresh /\ [][NextRefresh]_vars

\* C40: in a cycle, an existing room whose topic occurs among the rooms
\* generated in that cycle is not pruned in that cycle, whatever its score
\* and previous age; and a room whose topic has new rooms at least once in
\* every DefaultStaleCycles consecutive cycles is never pruned: every room
\* that was pruned had no new room of its topic in the DefaultStaleCycles
\* cycles that end with the one that pruned it.
C40_RefreshedNotPruned ==
    /\ last.op = "refresh" =>
         \A j \in 1..Len(last.pruned) :
             ~HasTopic(last.newRooms, last.pruned[j].topic)
    /\ \A k \in 1..Len(state.artifacts) :
         state.artifacts[k].kind = "pruned" =>
             \A c \in (state.artifacts[k].cycle - DefaultStaleCycles + 1)
                        ..state.artifacts[k].cycle :
                 <<c, state.artifacts[k].sourceTopic>> \notin last.log

\* a cycle found the saved room with a score of 0.6 or more and not
\* refreshed for DefaultStaleCycles cycles, brought a new room of its topic
\* and kept it; the room had been through quiet cycles before
C40_Witness ==
    /\ last.op = "refresh"
    /\ Len(last.in.rooms) >= 1
    /\ last.in.rooms[1].id = 1
    /\ last.ticked[1].entropy.score >= 600000
    /\ last.ticked[1].entropy.score < SCALE
    /\ last.in.observationCycles - last.in.rooms[1].lastRefreshedCycle >= DefaultStaleCycles
    /\ HasTopic(last.newRooms, last.in.rooms[1].topic)
    /\ \E i \in 1..Len(state.rooms) :
         state.rooms[i].id = 1 /\ state.rooms[i].lastRefreshedCycle = last.in.observationCycles
    /\ state.observationCycles > DefaultStaleCycles + 2

====
